---- MODULE Spec2Model ----
(***************************************************************************)
(* Model of the trust subsystem of ss-key-value-store.py:                  *)
(*   PathResolver      (src/src/foundation/PathResolver.py)                *)
(*   ProtectedStore    (src/src/foundation/ProtectedStore.py)              *)
(*   Credentials       (src/src/primitives/Credentials.py)                 *)
(*   CredentialManager (src/src/services/CredentialManager.py)             *)
(*   KVStore           (src/src/services/KVStore.py)                       *)
(* One CredentialManager and at most one KVStore attached to it.  Every    *)
(* public method is one action; what the call returned or raised is kept   *)
(* in the variable last.  Timestamps (created_at, last_access) are not     *)
(* part of the state.                                                      *)
(***************************************************************************)
EXTENDS Integers, Sequences, FiniteSets, TLC

VARIABLES
    credentials,      \* CredentialManager._credentials._store : name -> Credentials
    callbacks,        \* CredentialManager._register_callbacks (a list)
    issued,           \* number of tokens drawn from secrets.token_urlsafe so far
    attached,         \* TRUE once KVStore(credentials_manager) has been constructed
    caller_storages,  \* KVStore._caller_storages._store : name -> contents of the caller's store
    shared_rw,        \* KVStore._shared_read_write_store._store
    shared_ro,        \* KVStore._shared_read_only_store._store
    last,             \* the last call: method, caller, arguments, outcome, returned value
    handed,           \* the Credentials objects a client has kept, as it received them
    pstore,           \* a ProtectedStore a client constructed: <<>> or <<[policy, store]>>
    threads,          \* the calls in progress in the client's threads
    dirs              \* the directories of the filesystem that exist

vars == <<credentials, callbacks, issued, attached, caller_storages, shared_rw, shared_ro, last,
          handed, pstore, threads, dirs>>

(***************************************************************************)
(* Bounds of the model.                                                    *)
(***************************************************************************)
MaxRegs == 2        \* successful register calls in one run
MaxAccess == 2      \* largest access_count a row reaches
MaxStack == 3       \* most frames of a stack handed to getPathInfo by itself
MaxKept == 2        \* most Credentials objects a client keeps
MaxChain == 3       \* most frames of the code that calls a ProtectedStore of its own
MaxRoots == 2       \* most entries of a list of roots given to a constructor

None == "None"      \* Python's None

(***************************************************************************)
(* Strings.  A string is a TLA+ string; Chars spells the ones whose        *)
(* characters the code looks at (str.lower, the in operator).              *)
(***************************************************************************)
Chars(s) ==
    CASE s = "core"     -> <<"c", "o", "r", "e">>
      [] s = "Plugins"  -> <<"P", "l", "u", "g", "i", "n", "s">>
      [] s = "plugins"  -> <<"p", "l", "u", "g", "i", "n", "s">>
      [] s = "plugin"   -> <<"p", "l", "u", "g", "i", "n">>
      [] s = "unknown"  -> <<"u", "n", "k", "n", "o", "w", "n">>
      [] s = "unknowns" -> <<"u", "n", "k", "n", "o", "w", "n", "s">>
      [] s = "ext"      -> <<"e", "x", "t">>
      [] s = "srv"      -> <<"s", "r", "v">>
      [] s = "/"        -> <<"/">>

Spelled == {"core", "Plugins", "plugins", "plugin", "unknown", "unknowns", "ext", "srv", "/"}

Str(cs) == CHOOSE s \in Spelled : Chars(s) = cs

LowerChar(c) == IF c = "P" THEN "p" ELSE c

\* str.lower()
Lower(s) == Str([i \in 1..Len(Chars(s)) |-> LowerChar(Chars(s)[i])])

\* sub in s, for Python strings
StrIn(sub, s) ==
    LET a == Chars(sub)
        b == Chars(s)
    IN  \E i \in 0..(Len(b) - Len(a)) : SubSeq(b, i + 1, i + Len(a)) = a

(***************************************************************************)
(* Paths.  A canonical absolute path is the sequence of its segments below *)
(* the filesystem root; Path.parts is "/" followed by them.                *)
(***************************************************************************)
Parts(p) == <<"/">> \o p

\* Path.relative_to(base): the remaining parts, or None for the ValueError
RelativeTo(p, base) ==
    IF Len(base) <= Len(p) /\ SubSeq(p, 1, Len(base)) = base
    THEN SubSeq(p, Len(base) + 1, Len(p))
    ELSE None

RevSeq(s) == [i \in 1..Len(s) |-> s[Len(s) + 1 - i]]

\* the configured roots, PathResolver.base_paths, in configuration order
base_paths == << <<"srv", "core">>, <<"srv", "Plugins">>, <<"srv", "unknowns">>,
                 <<"srv", "unknown">>, <<"srv", "core", "ext">> >>

BaseType(base) ==
    IF 0 < Len(Parts(base)) THEN Lower(Parts(base)[Len(Parts(base))]) ELSE "unknown"

\* the matches of one frame, in the order of self.base_paths
RECURSIVE MatchedPaths(_, _, _)
MatchedPaths(self_base_paths, stack_path, i) ==
    IF i > Len(self_base_paths) THEN <<>>
    ELSE LET base == self_base_paths[i]
             rel == RelativeTo(stack_path, base)
             rest == MatchedPaths(self_base_paths, stack_path, i + 1)
         IN  IF rel # None /\ 0 < Len(rel)
             THEN << [base_path |-> base, parts |-> rel, base_type |-> BaseType(base),
                      depth |-> Len(Parts(base))] >> \o rest
             ELSE rest

\* the first match in configuration order, whatever its depth
BestMatch_First(ms) == ms[1]

\* matched_paths.sort(key=depth, reverse=True)[0]: the deepest, the first of equals
BestMatch(ms) ==
    LET i == CHOOSE i \in 1..Len(ms) :
                 /\ \A j \in 1..Len(ms) : ms[j].depth <= ms[i].depth
                 /\ \A j \in 1..(i - 1) : ms[j].depth < ms[i].depth
    IN  ms[i]

UnknownCaller == "ValueError: Caller name could not be determined."

\* the loop over the frames with an identity of its own for the caller no
\* frame of which lies under a root
RECURSIVE WalkFrames_Default(_, _)
WalkFrames_Default(self_base_paths, frames) ==
    IF frames = <<>>
    THEN [raised |-> None, name |-> "unknown", path |-> <<>>, type |-> "unknown"]
    ELSE LET ms == MatchedPaths(self_base_paths, Head(frames), 1)
         IN  IF ms # <<>>
             THEN [raised |-> None, name |-> BestMatch(ms).parts[1],
                   path |-> Head(frames), type |-> BestMatch(ms).base_type]
             ELSE WalkFrames_Default(self_base_paths, Tail(frames))

RECURSIVE WalkFrames(_, _)
WalkFrames(self_base_paths, frames) ==
    IF frames = <<>> THEN [raised |-> UnknownCaller]
    ELSE LET ms == MatchedPaths(self_base_paths, Head(frames), 1)
         IN  IF ms # <<>>
             THEN [raised |-> None, name |-> BestMatch(ms).parts[1],
                   path |-> Head(frames), type |-> BestMatch(ms).base_type]
             ELSE WalkFrames(self_base_paths, Tail(frames))

\* getPathInfo that walks the frames from the outermost inwards
getPathInfo_Outermost(self_base_paths, stacks) ==
    IF stacks = <<>> THEN [raised |-> "ValueError: No stack frames found."]
    ELSE WalkFrames(self_base_paths, SubSeq(stacks, 1, Len(stacks) - 1))

\* PathResolver.getPathInfo on a stack as traceback.extract_stack() gives it:
\* outermost frame first, getPathInfo's own frame last
getPathInfo(self_base_paths, stacks) ==
    IF stacks = <<>> THEN [raised |-> "ValueError: No stack frames found."]
    ELSE WalkFrames(self_base_paths, RevSeq(SubSeq(stacks, 1, Len(stacks) - 1)))


(***************************************************************************)
(* Call stacks.  A caller is the code of one source file calling into the  *)
(* library; the frames of the library itself lie under no configured root. *)
(***************************************************************************)
CallerFile(c) ==
    CASE c = "a" -> <<"srv", "core", "alpha", "main.py">>
      [] c = "b" -> <<"srv", "core", "beta", "main.py">>
      [] c = "p" -> <<"srv", "Plugins", "alpha", "plugin.py">>
      [] c = "u" -> <<"srv", "unknowns", "beta", "mod.py">>
      [] c = "n" -> <<"srv", "unknown", "beta", "mod.py">>
      [] c = "x" -> <<"home", "user", "script.py">>

Callers == {"a", "b", "p", "u", "n", "x"}

LibCM == <<"opt", "kvs", "src", "services", "CredentialManager.py">>
LibKV == <<"opt", "kvs", "src", "services", "KVStore.py">>
LibPR == <<"opt", "kvs", "src", "foundation", "PathResolver.py">>

\* the stack getPathInfo sees when caller c entered the library through the
\* frames via (outermost first)
StackOf(c, via) == << <<"usr", "lib", "python3", "runpy.py">>, CallerFile(c) >> \o via \o <<LibPR>>

\* the library frames between the caller and getPathInfo, by the method chain
ViaRegister == <<LibCM>>                    \* register
ViaValidate == <<LibKV, LibCM, LibCM>>      \* KVStore method, validate, getCredential
ViaStorage == <<LibKV, LibKV>>              \* KVStore method, _get_caller_storage
ViaIsAdmin == <<LibKV, LibKV, LibCM>>       \* KVStore method, _is_admin_user, getCredential
ViaCMValidate == <<LibCM, LibCM>>           \* validate, getCredential
ViaCMFetch == <<LibCM>>                     \* getCredential, or getKey
Vias == {ViaRegister, ViaValidate, ViaStorage, ViaIsAdmin, ViaCMValidate, ViaCMFetch}

\* getPathInfo() for each call the model makes
Resolved == [c \in Callers, via \in Vias |-> getPathInfo(base_paths, StackOf(c, via))]

(***************************************************************************)
(* ProtectedStore: the authorisation check of every store method.          *)
(***************************************************************************)
max_frames == 3

NoSelf == [id |-> None, cls |-> None]              \* a frame with no local self
TheCM == [id |-> "cm", cls |-> "CredentialManager"]
TheKV == [id |-> "kv", cls |-> "KVStore"]
AStore == [id |-> "store", cls |-> "ProtectedStore"] \* self of a store method's frame

\* an allowed_accessor is an object that is neither a type nor a str
\* ("instance": id, the name of its class, whether it is callable and, if so,
\* what a call of it does for each object: returns "True" or "False", or
\* raises), a type ("type") or a str ("str")
\* ProtectedStore(allowed_accessor=self) of the CredentialManager
CMPolicy == [kind |-> "instance", id |-> "cm", cls |-> "CredentialManager", callable |-> FALSE]
KVPolicy == [kind |-> "type", cls |-> "KVStore"]    \* ProtectedStore(allowed_accessor=KVStore)

\* _is_access_allowed that takes any instance of the accessor's class for the
\* accessor
_is_access_allowed_SameClass(policy, caller_self) ==
    IF caller_self = NoSelf THEN FALSE
    ELSE CASE policy.kind = "instance" /\ ~policy.callable -> caller_self.cls = policy.cls
           [] policy.kind = "type" -> caller_self.cls = policy.cls
           [] policy.kind = "str" -> caller_self.cls = policy.name
           [] policy.kind = "instance" /\ policy.callable ->
                  policy.returns[caller_self.id] = "True"
           [] OTHER -> FALSE

_is_access_allowed(policy, caller_self) ==
    IF caller_self = NoSelf THEN FALSE
    ELSE CASE policy.kind = "instance" /\ ~policy.callable -> caller_self.id = policy.id
           [] policy.kind = "type" -> caller_self.cls = policy.cls
           [] policy.kind = "str" -> caller_self.cls = policy.name
           [] policy.kind = "instance" /\ policy.callable ->
                  policy.returns[caller_self.id] = "True"
           [] OTHER -> FALSE

\* the check with no limit on the frames it looks at
_check_access_allowed_AllFrames(policy, selves) ==
    \E i \in 1..Len(selves) : _is_access_allowed(policy, selves[i])

\* selves: the self of each frame from the store method that was called
\* outwards.  TRUE when the call is let through, FALSE for PermissionError.
_check_access_allowed(policy, selves) ==
    \E i \in 1..max_frames :
        i <= Len(selves) /\ _is_access_allowed(policy, selves[i])

(***************************************************************************)
(* Credentials and CredentialManager.                                      *)
(***************************************************************************)
ADMIN == "admin"
READ_WRITE == "read_write"
WRITE_ONLY == "write_only"
READ_ONLY == "read_only"
AccessLevels == {ADMIN, READ_WRITE, WRITE_ONLY, READ_ONLY}

READ == "read"
WRITE == "write"

EmptyMap == [x \in {} |-> None]
Put(m, k, v) == [x \in (DOMAIN m) \cup {k} |-> IF x = k THEN v ELSE m[x]]
\* a deletion that empties the dict
Del_All(m, k) == [x \in {} |-> m[x]]

Del(m, k) == [x \in (DOMAIN m) \ {k} |-> m[x]]

\* the Credentials objects: id tells the objects apart by the call that
\* constructed them, register or with_updated_access at one of its two call
\* sites in _enableCredentials
ObjectId(key, site, access_count) == <<key, site, access_count>>

\* with_updated_access that assigns to the fields of self and returns self
with_updated_access_InPlace(self, access_count) ==
    [self EXCEPT !.enabled = TRUE,
                 !.access_count = IF access_count # <<>> /\ access_count[1] # 0
                                  THEN access_count[1]
                                  ELSE self.access_count + 1]

\* with_updated_access that counts no access when no count is given
with_updated_access_Stale(self, access_count) ==
    [self EXCEPT !.enabled = TRUE,
                 !.access_count = IF access_count # <<>> /\ access_count[1] # 0
                                  THEN access_count[1]
                                  ELSE self.access_count]

\* with_updated_access that leaves created_at to its default, the time of the
\* call, which is later than the time the row was made
with_updated_access_Restamped(self, access_count) ==
    LET count == IF access_count # <<>> /\ access_count[1] # 0
                 THEN access_count[1]
                 ELSE self.access_count + 1
    IN  [self EXCEPT !.id = ObjectId(self.key,
                                     IF access_count = <<>> THEN "enabled_credential" ELSE "row",
                                     count),
                     !.enabled = TRUE,
                     !.created_at = self.created_at + 1,
                     !.access_count = count]

\* Credentials.with_updated_access(access_count=...); the optional argument is
\* <<>> when left out (None) and <<n>> when given; last_access is not modelled.
\* The result is a new Credentials object
with_updated_access(self, access_count) ==
    LET count == IF access_count # <<>> /\ access_count[1] # 0
                 THEN access_count[1]
                 ELSE self.access_count + 1
    IN  [self EXCEPT !.id = ObjectId(self.key,
                                     IF access_count = <<>> THEN "enabled_credential" ELSE "row",
                                     count),
                     !.enabled = TRUE,
                     !.access_count = count]

\* canEscalateToAdmin without the test for 'unknown'
canEscalateToAdmin_PluginOnly(pathinfo) ==
    IF StrIn("plugin", pathinfo.type) THEN FALSE ELSE TRUE

canEscalateToAdmin(pathinfo) ==
    IF StrIn("plugin", pathinfo.type) \/ StrIn("unknown", pathinfo.type)
    THEN FALSE
    ELSE TRUE

\* the result of CredentialManager._enableCredentials on table creds
_enableCredentials(creds, credential) ==
    LET enabled_credential == with_updated_access(credential, <<>>)
    IN  [ret |-> enabled_credential,
         creds |-> IF credential.name \in DOMAIN creds
                   THEN Put(creds, credential.name,
                            with_updated_access(credential, <<enabled_credential.access_count>>))
                   ELSE creds]

\* a level table in which WRITE_ONLY permits READ as well
Permits_WriteReads(access_level, operation) ==
    \/ access_level = ADMIN
    \/ access_level = READ_WRITE /\ operation \in {READ, WRITE}
    \/ access_level = WRITE_ONLY /\ operation \in {READ, WRITE}
    \/ access_level = READ_ONLY /\ operation = READ

Permits(access_level, operation) ==
    \/ access_level = ADMIN
    \/ access_level = READ_WRITE /\ operation \in {READ, WRITE}
    \/ access_level = WRITE_ONLY /\ operation = WRITE
    \/ access_level = READ_ONLY /\ operation = READ

InvalidCredential == "ValueError: Invalid credential"

\* getCredential that takes the row of the caller's name whatever its level
getCredential_AnyLevel(creds, c, via, operation) ==
    LET pathinfo == Resolved[c, via]
    IN  IF pathinfo.raised # None
        THEN [raised |-> pathinfo.raised, creds |-> creds]
        ELSE LET hit == {n \in DOMAIN creds : creds[n].name = pathinfo.name}
             IN  IF hit = {}
                 THEN [raised |-> InvalidCredential, creds |-> creds]
                 ELSE LET r == _enableCredentials(creds, creds[CHOOSE n \in hit : TRUE])
                      IN  [raised |-> None, ret |-> r.ret, creds |-> r.creds]

\* CredentialManager.getCredential(operation) called by c through the frames via on
\* table creds: what it raises or returns, and the table afterwards
getCredential(creds, c, via, operation) ==
    LET pathinfo == Resolved[c, via]
    IN  IF pathinfo.raised # None
        THEN [raised |-> pathinfo.raised, creds |-> creds]
        ELSE LET hit == {n \in DOMAIN creds :
                            creds[n].name = pathinfo.name
                            /\ Permits(creds[n].access_level, operation)}
             IN  IF hit = {}
                 THEN [raised |-> InvalidCredential, creds |-> creds]
                 ELSE LET r == _enableCredentials(creds, creds[CHOOSE n \in hit : TRUE])
                      IN  [raised |-> None, ret |-> r.ret, creds |-> r.creds]

\* validate that drops the row of a caller it answers false to
validate_Revoke(creds, c, via, operation) ==
    LET r == getCredential(creds, c, via, operation)
        pathinfo == Resolved[c, via]
    IN  IF r.raised = None
        THEN [ret |-> r.ret.enabled, creds |-> r.creds]
        ELSE [ret |-> FALSE,
              creds |-> IF pathinfo.raised = None /\ pathinfo.name \in DOMAIN creds
                        THEN Del(creds, pathinfo.name)
                        ELSE creds]

\* CredentialManager.validate(operation)
validate(creds, c, via, operation) ==
    LET r == getCredential(creds, c, via, operation)
    IN  IF r.raised = None
        THEN [ret |-> r.ret.enabled, creds |-> r.creds]
        ELSE [ret |-> FALSE, creds |-> creds]


\* expected_type of the PermissionError
ExpectedType(policy) ==
    CASE policy.kind = "type" -> policy.cls
      [] policy.kind = "str" -> policy.name
      [] OTHER -> policy.cls

\* an item assignment that checks in its own frame, as the other methods do
StoreFrames_One(method) == <<AStore>>

\* the frames of the store itself that _check_access_allowed looks at first:
\* the method it was called from and, for an item assignment, __setitem__,
\* which calls set
StoreFrames(method) == IF method = "__setitem__" THEN <<AStore, AStore>> ELSE <<AStore>>

NoAccessor == [kind |-> "NoneType"]     \* allowed_accessor=None
AccessorRequired == "ValueError: An allowed accessor must be provided."
KeyError == "KeyError"

AdminNotAllowed == "ValueError: Admin access level is not allowed for caller"
AccessorOnly == "PermissionError: Access only allowed from authorized accessor."

\* a key that is the same at every register of a name
NewKey_Reused(caller, n) == <<caller, "_", 1>>

\* the key drawn for the n-th token: f"{caller}_{secrets.token_urlsafe(16)}"
NewKey(caller, n) == <<caller, "_", n>>

\* a Credentials value that counts the registration as a first access
NewCredential_Accessed(pathinfo, access_level, n) ==
    [name |-> pathinfo.name, key |-> NewKey(pathinfo.name, n),
     access_level |-> access_level, path |-> pathinfo.path, type |-> pathinfo.type,
     enabled |-> TRUE, created_at |-> n, access_count |-> 1,
     id |-> ObjectId(NewKey(pathinfo.name, n), "register", 0)]

\* the Credentials value register builds; created_at is the time of the
\* register on a clock that ticks at every register
NewCredential(pathinfo, access_level, n) ==
    [name |-> pathinfo.name, key |-> NewKey(pathinfo.name, n),
     access_level |-> access_level, path |-> pathinfo.path, type |-> pathinfo.type,
     enabled |-> FALSE, created_at |-> n, access_count |-> 0,
     id |-> ObjectId(NewKey(pathinfo.name, n), "register", 0)]

(***************************************************************************)
(* KVStore.                                                                *)
(***************************************************************************)
NoStorage == "ValueError: No storage found for caller"
AdminRequired == "PermissionError: Admin access required"

\* a callback that makes a private store only for a name that has none
_on_credential_registered_Keep(storages, credential) ==
    IF credential.name \in DOMAIN storages
    THEN storages
    ELSE Put(storages, credential.name, EmptyMap)

\* KVStore._on_credential_registered(credential): the registry of private
\* stores afterwards
_on_credential_registered(storages, credential) ==
    Put(storages, credential.name, EmptyMap)

\* the callbacks a client can hand to setRegisterCallback: "kv" is the bound
\* method KVStore._on_credential_registered, "boom" a callable that raises an
\* Exception whenever it is called
RaisingCallbacks == {"boom"}

\* one callback called with the credential: whether it raised, and the
\* registry of private stores afterwards
CallCallback(callback, storages, credential) ==
    IF callback = "kv"
    THEN [raised |-> FALSE, storages |-> _on_credential_registered(storages, credential)]
    ELSE [raised |-> callback \in RaisingCallbacks, storages |-> storages]

\* the loop of register over cbs[i..]; with stops, an exception of a callback
\* ends the loop, as it does not in the code (try / except Exception)
RECURSIVE CallbackLoop(_, _, _, _, _)
CallbackLoop(cbs, i, storages, credential, stops) ==
    IF i > Len(cbs) THEN storages
    ELSE LET r == CallCallback(cbs[i], storages, credential)
         IN  IF r.raised /\ stops
             THEN r.storages
             ELSE CallbackLoop(cbs, i + 1, r.storages, credential, stops)

\* the callbacks the loop of register calls, in the order it calls them
RECURSIVE CallbackTrace(_, _, _)
CallbackTrace(cbs, i, stops) ==
    IF i > Len(cbs) THEN <<>>
    ELSE IF cbs[i] \in RaisingCallbacks /\ stops
         THEN <<cbs[i]>>
         ELSE <<cbs[i]>> \o CallbackTrace(cbs, i + 1, stops)

\* the loop left at the first callback that raises
FireCallbacks_Abort(cbs, storages, credential) ==
    CallbackLoop(cbs, 1, storages, credential, TRUE)

\* register firing the callbacks with the new credential: the registry of
\* private stores afterwards
FireCallbacks(cbs, storages, credential) ==
    CallbackLoop(cbs, 1, storages, credential, FALSE)

\* the lookup under one fixed name instead of the caller's name
CallerStorageName_Fixed(pathinfo) == "alpha"

\* a lookup that tells the zones apart: a caller outside the core zone is
\* looked up under its zone
CallerStorageName_Zoned(pathinfo) ==
    IF pathinfo.type = "core" THEN pathinfo.name ELSE pathinfo.type

\* the name under which _get_caller_storage looks the caller's store up
CallerStorageName(pathinfo) == pathinfo.name

\* _get_caller_storage indexing the registry (KeyError) instead of get and the
\* test for None
_get_caller_storage_Index(storages, c, via) ==
    LET pathinfo == Resolved[c, via]
    IN  IF pathinfo.raised # None THEN [raised |-> pathinfo.raised]
        ELSE IF pathinfo.name \notin DOMAIN storages
             THEN [raised |-> "KeyError"]
        ELSE [raised |-> None, name |-> pathinfo.name]

\* KVStore._get_caller_storage(): the name of the caller's store, or what it raises
_get_caller_storage(storages, c, via) ==
    LET pathinfo == Resolved[c, via]
    IN  IF pathinfo.raised # None THEN [raised |-> pathinfo.raised]
        ELSE IF ~_check_access_allowed(KVPolicy, <<AStore, TheKV, TheKV>>)
             THEN [raised |-> AccessorOnly]
        ELSE IF CallerStorageName(pathinfo) \notin DOMAIN storages
             THEN [raised |-> NoStorage]
        ELSE [raised |-> None, name |-> CallerStorageName(pathinfo)]

\* dict.get(key, default)
DictGet(m, key, default) == IF key \in DOMAIN m THEN m[key] ELSE default

\* the values of a dict, with their multiplicities
DictValues(m) ==
    [v \in {m[k] : k \in DOMAIN m} |-> Cardinality({k \in DOMAIN m : m[k] = v})]

\* a ProtectedStore method called from a KVStore method
KVStoreAccess == _check_access_allowed(KVPolicy, <<AStore, TheKV, NoSelf>>)

\* _is_admin_user that takes any credential that permits WRITE for an admin
_is_admin_user_AnyWriter(creds, c, via) ==
    LET r == getCredential(creds, c, via, WRITE)
    IN  IF r.raised = None
        THEN [ret |-> TRUE, creds |-> r.creds]
        ELSE [ret |-> FALSE, creds |-> creds]

\* KVStore._is_admin_user(): the answer and the credential table afterwards
_is_admin_user(creds, c, via) ==
    LET r == getCredential(creds, c, via, WRITE)
    IN  IF r.raised = None
        THEN [ret |-> (r.ret.access_level = ADMIN), creds |-> r.creds]
        ELSE [ret |-> FALSE, creds |-> creds]

\* a call that has returned or raised and whose outcome the caller has not yet
\* taken: the method, the caller, the arguments, the exception (None when it
\* returned) and the returned value; for a register that returned, val is the
\* sequence of the callbacks it called
Call(op, c, key, val, raised, ret) ==
    [op |-> op, caller |-> c, key |-> key, val |-> val, raised |-> raised, ret |-> ret]

Idle == Call(None, None, None, None, None, None)

WithinBounds(creds) == \A n \in DOMAIN creds : creds[n].access_count <= MaxAccess

\* the threads of a client, and a thread that is in no call
Threads == {"t1", "t2"}
IdleThread == [pc |-> "idle"]

(***************************************************************************)
(* The state after CredentialManager(credentials_roots).                   *)
(***************************************************************************)
Init ==
    /\ credentials = EmptyMap
    /\ callbacks = <<>>
    /\ issued = 0
    /\ attached = FALSE
    /\ caller_storages = EmptyMap
    /\ shared_rw = EmptyMap
    /\ shared_ro = EmptyMap
    /\ last = Idle
    /\ handed = {}
    /\ pstore = <<>>
    /\ threads = [t \in Threads |-> IdleThread]
    /\ dirs = {}

\* the caller takes the outcome of the call; the next call can start
Return ==
    /\ last.op # None
    /\ last' = Idle
    /\ UNCHANGED <<credentials, callbacks, issued, attached, caller_storages, shared_rw, shared_ro>>
    /\ UNCHANGED <<handed, pstore, threads, dirs>>

\* setRegisterCallback without the test for a callback that is in the list
setRegisterCallback_Append(cbs, callback) == Append(cbs, callback)

\* CredentialManager.setRegisterCallback(callback)
setRegisterCallback(cbs, callback) ==
    IF \A i \in 1..Len(cbs) : cbs[i] # callback THEN Append(cbs, callback) ELSE cbs

\* KVStore(credentials_manager)
KVStoreInit ==
    /\ last.op = None
    /\ ~attached
    /\ attached' = TRUE
    /\ caller_storages' = EmptyMap
    /\ shared_rw' = EmptyMap
    /\ shared_ro' = EmptyMap
    /\ callbacks' = setRegisterCallback(callbacks, "kv")
    /\ last' = Call("KVStore", None, None, None, None, None)
    /\ UNCHANGED <<credentials, issued>>
    /\ UNCHANGED <<handed, pstore, threads, dirs>>

\* a register that drops the caller's row before it tests the zone
Register_Revoking(c, access_level) ==
    LET pathinfo == Resolved[c, ViaRegister]
    IN  /\ last.op = None
        /\ IF pathinfo.raised # None
           THEN /\ last' = Call("register", c, access_level, None, pathinfo.raised, None)
                /\ UNCHANGED <<credentials, issued, caller_storages>>
           ELSE IF access_level = ADMIN /\ ~canEscalateToAdmin(pathinfo)
           THEN /\ last' = Call("register", c, access_level, None, AdminNotAllowed, None)
                /\ credentials' = Del(credentials, pathinfo.name)
                /\ UNCHANGED <<issued, caller_storages>>
           ELSE LET credential == NewCredential(pathinfo, access_level, issued + 1)
                IN  /\ issued < MaxRegs
                    /\ issued' = issued + 1
                    /\ credentials' = Put(credentials, pathinfo.name, credential)
                    /\ caller_storages' =
                           FireCallbacks(callbacks, caller_storages, credential)
                    /\ last' = Call("register", c, access_level,
                                    CallbackTrace(callbacks, 1, FALSE), None, credential)
        /\ UNCHANGED <<callbacks, attached, shared_rw, shared_ro>>
        /\ UNCHANGED <<handed, pstore, threads, dirs>>

\* CredentialManager.register(access_level) called by c
Register(c, access_level) ==
    LET pathinfo == Resolved[c, ViaRegister]
    IN  /\ last.op = None
        /\ IF pathinfo.raised # None
           THEN /\ last' = Call("register", c, access_level, None, pathinfo.raised, None)
                /\ UNCHANGED <<credentials, issued, caller_storages>>
           ELSE IF access_level = ADMIN /\ ~canEscalateToAdmin(pathinfo)
           THEN /\ last' = Call("register", c, access_level, None, AdminNotAllowed, None)
                /\ UNCHANGED <<credentials, issued, caller_storages>>
           ELSE LET credential == NewCredential(pathinfo, access_level, issued + 1)
                IN  /\ issued < MaxRegs
                    /\ issued' = issued + 1
                    /\ IF _check_access_allowed(CMPolicy, <<AStore, AStore, TheCM>>)
                       THEN /\ credentials' = Put(credentials, pathinfo.name, credential)
                            /\ caller_storages' =
                                   FireCallbacks(callbacks, caller_storages, credential)
                            /\ last' = Call("register", c, access_level,
                                            CallbackTrace(callbacks, 1, FALSE), None, credential)
                       ELSE /\ last' = Call("register", c, access_level, None, AccessorOnly, None)
                            /\ UNCHANGED <<credentials, caller_storages>>
        /\ UNCHANGED <<callbacks, attached, shared_rw, shared_ro>>
        /\ UNCHANGED <<handed, pstore, threads, dirs>>

(***************************************************************************)
(* CredentialManager called by a client directly.                          *)
(***************************************************************************)
NoCredential == "ValueError: No valid credential found for caller"

\* CredentialManager.getKey() called by c through the frames via on table creds
getKey(creds, c, via) ==
    LET pathinfo == Resolved[c, via]
    IN  IF pathinfo.raised # None
        THEN [raised |-> pathinfo.raised]
        ELSE LET hit == {n \in DOMAIN creds : creds[n].name = pathinfo.name}
             IN  IF hit = {}
                 THEN [raised |-> NoCredential]
                 ELSE [raised |-> None, ret |-> creds[CHOOSE n \in hit : TRUE].key]

\* CredentialManager.validate(operation) called by c
CM_validate(c, operation) ==
    LET v == validate(credentials, c, ViaCMValidate, operation)
    IN  /\ last.op = None
        /\ WithinBounds(v.creds)
        /\ credentials' = v.creds
        /\ last' = Call("validate", c, operation, None, None, v.ret)
        /\ UNCHANGED <<callbacks, issued, attached, caller_storages, shared_rw, shared_ro>>
        /\ UNCHANGED <<handed, pstore, threads, dirs>>

\* CredentialManager.getCredential(operation) called by c
CM_getCredential(c, operation) ==
    LET r == getCredential(credentials, c, ViaCMFetch, operation)
    IN  /\ last.op = None
        /\ WithinBounds(r.creds)
        /\ credentials' = r.creds
        /\ last' = IF r.raised # None
                   THEN Call("getCredential", c, operation, None, r.raised, None)
                   ELSE Call("getCredential", c, operation, None, None, r.ret)
        /\ UNCHANGED <<callbacks, issued, attached, caller_storages, shared_rw, shared_ro>>
        /\ UNCHANGED <<handed, pstore, threads, dirs>>

\* CredentialManager.getKey() called by c
CM_getKey(c) ==
    LET r == getKey(credentials, c, ViaCMFetch)
    IN  /\ last.op = None
        /\ last' = IF r.raised # None
                   THEN Call("getKey", c, None, None, r.raised, None)
                   ELSE Call("getKey", c, None, None, None, r.ret)
        /\ UNCHANGED <<credentials, callbacks, issued, attached, caller_storages,
                       shared_rw, shared_ro>>
        /\ UNCHANGED <<handed, pstore, threads, dirs>>

\* CredentialManager.get_credential_count()
CM_get_credential_count ==
    /\ last.op = None
    /\ last' = IF _check_access_allowed(CMPolicy, <<AStore, TheCM, NoSelf>>)
               THEN Call("get_credential_count", None, None, None, None,
                         Cardinality(DOMAIN credentials))
               ELSE Call("get_credential_count", None, None, None, AccessorOnly, None)
    /\ UNCHANGED <<credentials, callbacks, issued, attached, caller_storages,
                   shared_rw, shared_ro>>
    /\ UNCHANGED <<handed, pstore, threads, dirs>>

\* CredentialManager.has_credential(caller_name)
CM_has_credential(caller_name) ==
    /\ last.op = None
    /\ last' = IF _check_access_allowed(CMPolicy, <<AStore, TheCM, NoSelf>>)
               THEN Call("has_credential", None, caller_name, None, None,
                         caller_name \in DOMAIN credentials)
               ELSE Call("has_credential", None, caller_name, None, AccessorOnly, None)
    /\ UNCHANGED <<credentials, callbacks, issued, attached, caller_storages,
                   shared_rw, shared_ro>>
    /\ UNCHANGED <<handed, pstore, threads, dirs>>

\* CredentialManager.setRegisterCallback(callback) called by a client
CM_setRegisterCallback(callback) ==
    /\ last.op = None
    /\ callbacks' = setRegisterCallback(callbacks, callback)
    /\ last' = Call("setRegisterCallback", None, callback, None, None, None)
    /\ UNCHANGED <<credentials, issued, attached, caller_storages, shared_rw, shared_ro>>
    /\ UNCHANGED <<handed, pstore, threads, dirs>>

(***************************************************************************)
(* The private namespace: KVStore.set, get, has, delete, clear, keys,      *)
(* values.  Each calls validate, whose answer it drops, then looks the     *)
(* caller's store up and calls the store.                                  *)
(***************************************************************************)
\* KVStore.set(key, value) called by c
KV_set(c, key, value) ==
    LET v == validate(credentials, c, ViaValidate, WRITE)
        s == _get_caller_storage(caller_storages, c, ViaStorage)
    IN  /\ last.op = None
        /\ attached
        /\ WithinBounds(v.creds)
        /\ credentials' = v.creds
        /\ IF s.raised # None
           THEN /\ last' = Call("set", c, key, value, s.raised, None)
                /\ UNCHANGED caller_storages
           ELSE IF ~KVStoreAccess
           THEN /\ last' = Call("set", c, key, value, AccessorOnly, None)
                /\ UNCHANGED caller_storages
           ELSE LET m == caller_storages[s.name]
                IN  /\ caller_storages' = [caller_storages EXCEPT ![s.name] = Put(m, key, value)]
                    /\ last' = Call("set", c, key, value, None, None)
        /\ UNCHANGED <<callbacks, issued, attached, shared_rw, shared_ro>>
        /\ UNCHANGED <<handed, pstore, threads, dirs>>

\* KVStore.get(key, default) called by c
KV_get(c, key, default) ==
    LET v == validate(credentials, c, ViaValidate, READ)
        s == _get_caller_storage(caller_storages, c, ViaStorage)
    IN  /\ last.op = None
        /\ attached
        /\ WithinBounds(v.creds)
        /\ credentials' = v.creds
        /\ IF s.raised # None
           THEN /\ last' = Call("get", c, key, default, s.raised, None)
                /\ UNCHANGED caller_storages
           ELSE IF ~KVStoreAccess
           THEN /\ last' = Call("get", c, key, default, AccessorOnly, None)
                /\ UNCHANGED caller_storages
           ELSE LET m == caller_storages[s.name]
                IN  /\ caller_storages' = [caller_storages EXCEPT ![s.name] = m]
                    /\ last' = Call("get", c, key, default, None, DictGet(m, key, default))
        /\ UNCHANGED <<callbacks, issued, attached, shared_rw, shared_ro>>
        /\ UNCHANGED <<handed, pstore, threads, dirs>>

\* KVStore.has(key) called by c
KV_has(c, key) ==
    LET v == validate(credentials, c, ViaValidate, READ)
        s == _get_caller_storage(caller_storages, c, ViaStorage)
    IN  /\ last.op = None
        /\ attached
        /\ WithinBounds(v.creds)
        /\ credentials' = v.creds
        /\ IF s.raised # None
           THEN /\ last' = Call("has", c, key, None, s.raised, None)
                /\ UNCHANGED caller_storages
           ELSE IF ~KVStoreAccess
           THEN /\ last' = Call("has", c, key, None, AccessorOnly, None)
                /\ UNCHANGED caller_storages
           ELSE LET m == caller_storages[s.name]
                IN  /\ caller_storages' = [caller_storages EXCEPT ![s.name] = m]
                    /\ last' = Call("has", c, key, None, None, key \in DOMAIN m)
        /\ UNCHANGED <<callbacks, issued, attached, shared_rw, shared_ro>>
        /\ UNCHANGED <<handed, pstore, threads, dirs>>

\* KVStore.delete(key) called by c
KV_delete(c, key) ==
    LET v == validate(credentials, c, ViaValidate, WRITE)
        s == _get_caller_storage(caller_storages, c, ViaStorage)
    IN  /\ last.op = None
        /\ attached
        /\ WithinBounds(v.creds)
        /\ credentials' = v.creds
        /\ IF s.raised # None
           THEN /\ last' = Call("delete", c, key, None, s.raised, None)
                /\ UNCHANGED caller_storages
           ELSE IF ~KVStoreAccess
           THEN /\ last' = Call("delete", c, key, None, AccessorOnly, None)
                /\ UNCHANGED caller_storages
           ELSE LET m == caller_storages[s.name]
                IN  /\ caller_storages' = [caller_storages EXCEPT ![s.name] = IF key \in DOMAIN m THEN Del(m, key) ELSE m]
                    /\ last' = Call("delete", c, key, None, None, None)
        /\ UNCHANGED <<callbacks, issued, attached, shared_rw, shared_ro>>
        /\ UNCHANGED <<handed, pstore, threads, dirs>>

\* KVStore.clear() called by c
KV_clear(c) ==
    LET v == validate(credentials, c, ViaValidate, WRITE)
        s == _get_caller_storage(caller_storages, c, ViaStorage)
    IN  /\ last.op = None
        /\ attached
        /\ WithinBounds(v.creds)
        /\ credentials' = v.creds
        /\ IF s.raised # None
           THEN /\ last' = Call("clear", c, None, None, s.raised, None)
                /\ UNCHANGED caller_storages
           ELSE IF ~KVStoreAccess
           THEN /\ last' = Call("clear", c, None, None, AccessorOnly, None)
                /\ UNCHANGED caller_storages
           ELSE LET m == caller_storages[s.name]
                IN  /\ caller_storages' = [caller_storages EXCEPT ![s.name] = EmptyMap]
                    /\ last' = Call("clear", c, None, None, None, None)
        /\ UNCHANGED <<callbacks, issued, attached, shared_rw, shared_ro>>
        /\ UNCHANGED <<handed, pstore, threads, dirs>>

\* KVStore.keys() called by c
KV_keys(c) ==
    LET v == validate(credentials, c, ViaValidate, READ)
        s == _get_caller_storage(caller_storages, c, ViaStorage)
    IN  /\ last.op = None
        /\ attached
        /\ WithinBounds(v.creds)
        /\ credentials' = v.creds
        /\ IF s.raised # None
           THEN /\ last' = Call("keys", c, None, None, s.raised, None)
                /\ UNCHANGED caller_storages
           ELSE IF ~KVStoreAccess
           THEN /\ last' = Call("keys", c, None, None, AccessorOnly, None)
                /\ UNCHANGED caller_storages
           ELSE LET m == caller_storages[s.name]
                IN  /\ caller_storages' = [caller_storages EXCEPT ![s.name] = m]
                    /\ last' = Call("keys", c, None, None, None, DOMAIN m)
        /\ UNCHANGED <<callbacks, issued, attached, shared_rw, shared_ro>>
        /\ UNCHANGED <<handed, pstore, threads, dirs>>

\* KVStore.values() called by c
KV_values(c) ==
    LET v == validate(credentials, c, ViaValidate, READ)
        s == _get_caller_storage(caller_storages, c, ViaStorage)
    IN  /\ last.op = None
        /\ attached
        /\ WithinBounds(v.creds)
        /\ credentials' = v.creds
        /\ IF s.raised # None
           THEN /\ last' = Call("values", c, None, None, s.raised, None)
                /\ UNCHANGED caller_storages
           ELSE IF ~KVStoreAccess
           THEN /\ last' = Call("values", c, None, None, AccessorOnly, None)
                /\ UNCHANGED caller_storages
           ELSE LET m == caller_storages[s.name]
                IN  /\ caller_storages' = [caller_storages EXCEPT ![s.name] = m]
                    /\ last' = Call("values", c, None, None, None, DictValues(m))
        /\ UNCHANGED <<callbacks, issued, attached, shared_rw, shared_ro>>
        /\ UNCHANGED <<handed, pstore, threads, dirs>>

(***************************************************************************)
(* The shared read-write namespace: KVStore.shared_*.  Each calls          *)
(* validate, whose answer it drops, then calls the store.                  *)
(***************************************************************************)
\* shared_set writing the read-only store
KV_shared_set_WrongStore(c, key, value) ==
    LET v == validate(credentials, c, ViaValidate, WRITE)
    IN  /\ last.op = None
        /\ attached
        /\ WithinBounds(v.creds)
        /\ credentials' = v.creds
        /\ shared_ro' = Put(shared_ro, key, value)
        /\ last' = Call("shared_set", c, key, value, None, None)
        /\ UNCHANGED <<callbacks, issued, attached, caller_storages, shared_rw>>
        /\ UNCHANGED <<handed, pstore, threads, dirs>>

\* KVStore.shared_set(key, value) called by c
KV_shared_set(c, key, value) ==
    LET v == validate(credentials, c, ViaValidate, WRITE)
        m == shared_rw
    IN  /\ last.op = None
        /\ attached
        /\ WithinBounds(v.creds)
        /\ credentials' = v.creds
        /\ IF ~KVStoreAccess
           THEN /\ last' = Call("shared_set", c, key, value, AccessorOnly, None)
                /\ UNCHANGED shared_rw
           ELSE /\ shared_rw' = Put(m, key, value)
                /\ last' = Call("shared_set", c, key, value, None, None)
        /\ UNCHANGED <<callbacks, issued, attached, caller_storages, shared_ro>>
        /\ UNCHANGED <<handed, pstore, threads, dirs>>

\* shared_get reading the read-only store
KV_shared_get_WrongStore(c, key, default) ==
    LET v == validate(credentials, c, ViaValidate, READ)
    IN  /\ last.op = None
        /\ attached
        /\ WithinBounds(v.creds)
        /\ credentials' = v.creds
        /\ last' = Call("shared_get", c, key, default, None, DictGet(shared_ro, key, default))
        /\ UNCHANGED <<callbacks, issued, attached, caller_storages, shared_rw, shared_ro>>
        /\ UNCHANGED <<handed, pstore, threads, dirs>>

\* KVStore.shared_get(key, default) called by c
KV_shared_get(c, key, default) ==
    LET v == validate(credentials, c, ViaValidate, READ)
        m == shared_rw
    IN  /\ last.op = None
        /\ attached
        /\ WithinBounds(v.creds)
        /\ credentials' = v.creds
        /\ IF ~KVStoreAccess
           THEN /\ last' = Call("shared_get", c, key, default, AccessorOnly, None)
                /\ UNCHANGED shared_rw
           ELSE /\ shared_rw' = m
                /\ last' = Call("shared_get", c, key, default, None, DictGet(m, key, default))
        /\ UNCHANGED <<callbacks, issued, attached, caller_storages, shared_ro>>
        /\ UNCHANGED <<handed, pstore, threads, dirs>>

\* KVStore.shared_has(key) called by c
KV_shared_has(c, key) ==
    LET v == validate(credentials, c, ViaValidate, READ)
        m == shared_rw
    IN  /\ last.op = None
        /\ attached
        /\ WithinBounds(v.creds)
        /\ credentials' = v.creds
        /\ IF ~KVStoreAccess
           THEN /\ last' = Call("shared_has", c, key, None, AccessorOnly, None)
                /\ UNCHANGED shared_rw
           ELSE /\ shared_rw' = m
                /\ last' = Call("shared_has", c, key, None, None, key \in DOMAIN m)
        /\ UNCHANGED <<callbacks, issued, attached, caller_storages, shared_ro>>
        /\ UNCHANGED <<handed, pstore, threads, dirs>>

\* shared_delete without the test for the key: del raises KeyError
KV_shared_delete_Strict(c, key) ==
    LET v == validate(credentials, c, ViaValidate, WRITE)
        m == shared_rw
    IN  /\ last.op = None
        /\ attached
        /\ WithinBounds(v.creds)
        /\ credentials' = v.creds
        /\ IF key \in DOMAIN m
           THEN /\ shared_rw' = Del(m, key)
                /\ last' = Call("shared_delete", c, key, None, None, None)
           ELSE /\ shared_rw' = m
                /\ last' = Call("shared_delete", c, key, None, "KeyError", None)
        /\ UNCHANGED <<callbacks, issued, attached, caller_storages, shared_ro>>
        /\ UNCHANGED <<handed, pstore, threads, dirs>>

\* KVStore.shared_delete(key) called by c
KV_shared_delete(c, key) ==
    LET v == validate(credentials, c, ViaValidate, WRITE)
        m == shared_rw
    IN  /\ last.op = None
        /\ attached
        /\ WithinBounds(v.creds)
        /\ credentials' = v.creds
        /\ IF ~KVStoreAccess
           THEN /\ last' = Call("shared_delete", c, key, None, AccessorOnly, None)
                /\ UNCHANGED shared_rw
           ELSE /\ shared_rw' = IF key \in DOMAIN m THEN Del(m, key) ELSE m
                /\ last' = Call("shared_delete", c, key, None, None, None)
        /\ UNCHANGED <<callbacks, issued, attached, caller_storages, shared_ro>>
        /\ UNCHANGED <<handed, pstore, threads, dirs>>

\* KVStore.shared_clear() called by c
KV_shared_clear(c) ==
    LET v == validate(credentials, c, ViaValidate, WRITE)
        m == shared_rw
    IN  /\ last.op = None
        /\ attached
        /\ WithinBounds(v.creds)
        /\ credentials' = v.creds
        /\ IF ~KVStoreAccess
           THEN /\ last' = Call("shared_clear", c, None, None, AccessorOnly, None)
                /\ UNCHANGED shared_rw
           ELSE /\ shared_rw' = EmptyMap
                /\ last' = Call("shared_clear", c, None, None, None, None)
        /\ UNCHANGED <<callbacks, issued, attached, caller_storages, shared_ro>>
        /\ UNCHANGED <<handed, pstore, threads, dirs>>

\* KVStore.shared_keys() called by c
KV_shared_keys(c) ==
    LET v == validate(credentials, c, ViaValidate, READ)
        m == shared_rw
    IN  /\ last.op = None
        /\ attached
        /\ WithinBounds(v.creds)
        /\ credentials' = v.creds
        /\ IF ~KVStoreAccess
           THEN /\ last' = Call("shared_keys", c, None, None, AccessorOnly, None)
                /\ UNCHANGED shared_rw
           ELSE /\ shared_rw' = m
                /\ last' = Call("shared_keys", c, None, None, None, DOMAIN m)
        /\ UNCHANGED <<callbacks, issued, attached, caller_storages, shared_ro>>
        /\ UNCHANGED <<handed, pstore, threads, dirs>>

\* KVStore.shared_values() called by c
KV_shared_values(c) ==
    LET v == validate(credentials, c, ViaValidate, READ)
        m == shared_rw
    IN  /\ last.op = None
        /\ attached
        /\ WithinBounds(v.creds)
        /\ credentials' = v.creds
        /\ IF ~KVStoreAccess
           THEN /\ last' = Call("shared_values", c, None, None, AccessorOnly, None)
                /\ UNCHANGED shared_rw
           ELSE /\ shared_rw' = m
                /\ last' = Call("shared_values", c, None, None, None, DictValues(m))
        /\ UNCHANGED <<callbacks, issued, attached, caller_storages, shared_ro>>
        /\ UNCHANGED <<handed, pstore, threads, dirs>>

(***************************************************************************)
(* The shared read-only namespace: KVStore.readonly_*.  The writes ask     *)
(* _is_admin_user after validate.                                          *)
(***************************************************************************)
\* KVStore.readonly_set(key, value) called by c
KV_readonly_set(c, key, value) ==
    LET v == validate(credentials, c, ViaValidate, WRITE)
        a == _is_admin_user(v.creds, c, ViaIsAdmin)
        m == shared_ro
    IN  /\ last.op = None
        /\ attached
        /\ WithinBounds(a.creds)
        /\ credentials' = a.creds
        /\ IF ~a.ret
           THEN /\ last' = Call("readonly_set", c, key, value, AdminRequired, None)
                /\ UNCHANGED shared_ro
           ELSE IF ~KVStoreAccess
           THEN /\ last' = Call("readonly_set", c, key, value, AccessorOnly, None)
                /\ UNCHANGED shared_ro
           ELSE /\ shared_ro' = Put(m, key, value)
                /\ last' = Call("readonly_set", c, key, value, None, None)
        /\ UNCHANGED <<callbacks, issued, attached, caller_storages, shared_rw>>
        /\ UNCHANGED <<handed, pstore, threads, dirs>>

\* KVStore.readonly_get(key, default) called by c
KV_readonly_get(c, key, default) ==
    LET v == validate(credentials, c, ViaValidate, READ)
        m == shared_ro
    IN  /\ last.op = None
        /\ attached
        /\ WithinBounds(v.creds)
        /\ credentials' = v.creds
        /\ IF ~KVStoreAccess
           THEN /\ last' = Call("readonly_get", c, key, default, AccessorOnly, None)
                /\ UNCHANGED shared_ro
           ELSE /\ shared_ro' = m
                /\ last' = Call("readonly_get", c, key, default, None, DictGet(m, key, default))
        /\ UNCHANGED <<callbacks, issued, attached, caller_storages, shared_rw>>
        /\ UNCHANGED <<handed, pstore, threads, dirs>>

\* KVStore.readonly_has(key) called by c
KV_readonly_has(c, key) ==
    LET v == validate(credentials, c, ViaValidate, READ)
        m == shared_ro
    IN  /\ last.op = None
        /\ attached
        /\ WithinBounds(v.creds)
        /\ credentials' = v.creds
        /\ IF ~KVStoreAccess
           THEN /\ last' = Call("readonly_has", c, key, None, AccessorOnly, None)
                /\ UNCHANGED shared_ro
           ELSE /\ shared_ro' = m
                /\ last' = Call("readonly_has", c, key, None, None, key \in DOMAIN m)
        /\ UNCHANGED <<callbacks, issued, attached, caller_storages, shared_rw>>
        /\ UNCHANGED <<handed, pstore, threads, dirs>>

\* KVStore.readonly_delete(key) called by c
KV_readonly_delete(c, key) ==
    LET v == validate(credentials, c, ViaValidate, WRITE)
        a == _is_admin_user(v.creds, c, ViaIsAdmin)
        m == shared_ro
    IN  /\ last.op = None
        /\ attached
        /\ WithinBounds(a.creds)
        /\ credentials' = a.creds
        /\ IF ~a.ret
           THEN /\ last' = Call("readonly_delete", c, key, None, AdminRequired, None)
                /\ UNCHANGED shared_ro
           ELSE IF ~KVStoreAccess
           THEN /\ last' = Call("readonly_delete", c, key, None, AccessorOnly, None)
                /\ UNCHANGED shared_ro
           ELSE /\ shared_ro' = IF key \in DOMAIN m THEN Del(m, key) ELSE m
                /\ last' = Call("readonly_delete", c, key, None, None, None)
        /\ UNCHANGED <<callbacks, issued, attached, caller_storages, shared_rw>>
        /\ UNCHANGED <<handed, pstore, threads, dirs>>

\* KVStore.readonly_clear() called by c
KV_readonly_clear(c) ==
    LET v == validate(credentials, c, ViaValidate, WRITE)
        a == _is_admin_user(v.creds, c, ViaIsAdmin)
        m == shared_ro
    IN  /\ last.op = None
        /\ attached
        /\ WithinBounds(a.creds)
        /\ credentials' = a.creds
        /\ IF ~a.ret
           THEN /\ last' = Call("readonly_clear", c, None, None, AdminRequired, None)
                /\ UNCHANGED shared_ro
           ELSE IF ~KVStoreAccess
           THEN /\ last' = Call("readonly_clear", c, None, None, AccessorOnly, None)
                /\ UNCHANGED shared_ro
           ELSE /\ shared_ro' = EmptyMap
                /\ last' = Call("readonly_clear", c, None, None, None, None)
        /\ UNCHANGED <<callbacks, issued, attached, caller_storages, shared_rw>>
        /\ UNCHANGED <<handed, pstore, threads, dirs>>

\* KVStore.readonly_keys() called by c
KV_readonly_keys(c) ==
    LET v == validate(credentials, c, ViaValidate, READ)
        m == shared_ro
    IN  /\ last.op = None
        /\ attached
        /\ WithinBounds(v.creds)
        /\ credentials' = v.creds
        /\ IF ~KVStoreAccess
           THEN /\ last' = Call("readonly_keys", c, None, None, AccessorOnly, None)
                /\ UNCHANGED shared_ro
           ELSE /\ shared_ro' = m
                /\ last' = Call("readonly_keys", c, None, None, None, DOMAIN m)
        /\ UNCHANGED <<callbacks, issued, attached, caller_storages, shared_rw>>
        /\ UNCHANGED <<handed, pstore, threads, dirs>>

\* KVStore.readonly_values() called by c
KV_readonly_values(c) ==
    LET v == validate(credentials, c, ViaValidate, READ)
        m == shared_ro
    IN  /\ last.op = None
        /\ attached
        /\ WithinBounds(v.creds)
        /\ credentials' = v.creds
        /\ IF ~KVStoreAccess
           THEN /\ last' = Call("readonly_values", c, None, None, AccessorOnly, None)
                /\ UNCHANGED shared_ro
           ELSE /\ shared_ro' = m
                /\ last' = Call("readonly_values", c, None, None, None, DictValues(m))
        /\ UNCHANGED <<callbacks, issued, attached, caller_storages, shared_rw>>
        /\ UNCHANGED <<handed, pstore, threads, dirs>>

(***************************************************************************)
(* The calls of a run draw their callers and arguments from a universe U:  *)
(* callers, levels, keys, values, defaults (of get).                       *)
(***************************************************************************)
NextOver(U) ==
    \/ KVStoreInit
    \/ Return
    \/ \E c \in U.callers, access_level \in U.levels : Register(c, access_level)
    \/ \E c \in U.callers, key \in U.keys, value \in U.values : KV_set(c, key, value)
    \/ \E c \in U.callers, key \in U.keys, default \in U.defaults : KV_get(c, key, default)
    \/ \E c \in U.callers, key \in U.keys : KV_has(c, key)
    \/ \E c \in U.callers, key \in U.keys : KV_delete(c, key)
    \/ \E c \in U.callers : KV_clear(c)
    \/ \E c \in U.callers : KV_keys(c)
    \/ \E c \in U.callers : KV_values(c)
    \/ \E c \in U.callers, key \in U.keys, value \in U.values : KV_shared_set(c, key, value)
    \/ \E c \in U.callers, key \in U.keys, default \in U.defaults : KV_shared_get(c, key, default)
    \/ \E c \in U.callers, key \in U.keys : KV_shared_has(c, key)
    \/ \E c \in U.callers, key \in U.keys : KV_shared_delete(c, key)
    \/ \E c \in U.callers : KV_shared_clear(c)
    \/ \E c \in U.callers : KV_shared_keys(c)
    \/ \E c \in U.callers : KV_shared_values(c)
    \/ \E c \in U.callers, key \in U.keys, value \in U.values : KV_readonly_set(c, key, value)
    \/ \E c \in U.callers, key \in U.keys, default \in U.defaults : KV_readonly_get(c, key, default)
    \/ \E c \in U.callers, key \in U.keys : KV_readonly_has(c, key)
    \/ \E c \in U.callers, key \in U.keys : KV_readonly_delete(c, key)
    \/ \E c \in U.callers : KV_readonly_clear(c)
    \/ \E c \in U.callers : KV_readonly_keys(c)
    \/ \E c \in U.callers : KV_readonly_values(c)

\* the calls a client makes on the CredentialManager itself: levels (of
\* register), operations and names (of has_credential) from U
CMOver(U) ==
    \/ \E c \in U.callers, access_level \in U.levels : Register(c, access_level)
    \/ \E c \in U.callers, operation \in U.operations : CM_validate(c, operation)
    \/ \E c \in U.callers, operation \in U.operations : CM_getCredential(c, operation)
    \/ \E c \in U.callers : CM_getKey(c)
    \/ CM_get_credential_count
    \/ \E caller_name \in U.names : CM_has_credential(caller_name)

\* PathResolver(base_paths).getPathInfo() called with the frames of stacks on
\* the stack, the last of them its own
PR_getPathInfo(self_base_paths, stacks) ==
    LET r == getPathInfo(self_base_paths, stacks)
    IN  /\ last.op = None
        /\ last' = IF r.raised # None
                   THEN Call("getPathInfo", None, self_base_paths, stacks, r.raised, None)
                   ELSE Call("getPathInfo", None, self_base_paths, stacks, None,
                             [name |-> r.name, path |-> r.path, type |-> r.type])
        /\ UNCHANGED <<credentials, callbacks, issued, attached, caller_storages, shared_rw,
                       shared_ro, handed, pstore, threads, dirs>>

\* the outcome of a call of a ProtectedStore method: as Call, with the self of
\* the calling frames (innermost first) for the caller and the expected_type
\* of a PermissionError
StoreCall(op, chain, key, val, raised, expected, ret) ==
    [op |-> op, caller |-> chain, key |-> key, val |-> val, raised |-> raised,
     expected |-> expected, ret |-> ret]

\* ProtectedStore(allowed_accessor)
PS_init(allowed_accessor) ==
    /\ last.op = None
    /\ pstore = <<>>
    /\ IF allowed_accessor = NoAccessor
       THEN /\ pstore' = pstore
            /\ last' = StoreCall("ProtectedStore", <<>>, None, None, AccessorRequired, None, None)
       ELSE /\ pstore' = <<[policy |-> allowed_accessor, store |-> EmptyMap]>>
            /\ last' = StoreCall("ProtectedStore", <<>>, None, None, None, None, None)
    /\ UNCHANGED <<credentials, callbacks, issued, attached, caller_storages, shared_rw,
                   shared_ro, handed, threads, dirs>>

\* the methods of a ProtectedStore that check the access
StoreMethods ==
    {"__setitem__", "__getitem__", "__delitem__", "__contains__", "__len__", "clear",
     "items", "keys", "values", "get", "set", "deep_copy"}

\* what a method does with the dict once the check has let it through: the
\* exception, the returned value and the dict afterwards
StoreApply(method, store, key, value, default) ==
    CASE method \in {"__setitem__", "set"} ->
             [raised |-> None, ret |-> None, store |-> Put(store, key, value)]
      [] method = "__getitem__" ->
             IF key \in DOMAIN store
             THEN [raised |-> None, ret |-> store[key], store |-> store]
             ELSE [raised |-> KeyError, ret |-> None, store |-> store]
      [] method = "__delitem__" ->
             IF key \in DOMAIN store
             THEN [raised |-> None, ret |-> None, store |-> Del(store, key)]
             ELSE [raised |-> KeyError, ret |-> None, store |-> store]
      [] method = "__contains__" ->
             [raised |-> None, ret |-> (key \in DOMAIN store), store |-> store]
      [] method = "__len__" ->
             [raised |-> None, ret |-> Cardinality(DOMAIN store), store |-> store]
      [] method = "clear" -> [raised |-> None, ret |-> None, store |-> EmptyMap]
      [] method \in {"items", "deep_copy"} -> [raised |-> None, ret |-> store, store |-> store]
      [] method = "keys" -> [raised |-> None, ret |-> DOMAIN store, store |-> store]
      [] method = "values" -> [raised |-> None, ret |-> DictValues(store), store |-> store]
      [] method = "get" ->
             [raised |-> None, ret |-> DictGet(store, key, default), store |-> store]

\* a method of the ProtectedStore called from code whose frames, from the
\* calling frame outwards, have the selves of chain
PS_call(method, chain, key, value, default) ==
    LET self == pstore[1]
    IN  /\ last.op = None
        /\ pstore # <<>>
        /\ IF ~_check_access_allowed(self.policy, StoreFrames(method) \o chain)
           THEN /\ pstore' = pstore
                /\ last' = StoreCall(method, chain, key, value, AccessorOnly,
                                     ExpectedType(self.policy), None)
           ELSE LET r == StoreApply(method, self.store, key, value, default)
                IN  /\ pstore' = <<[self EXCEPT !.store = r.store]>>
                    /\ last' = StoreCall(method, chain, key, value, r.raised, None, r.ret)
        /\ UNCHANGED <<credentials, callbacks, issued, attached, caller_storages, shared_rw,
                       shared_ro, handed, threads, dirs>>

\* ProtectedStore._is_access_allowed(caller_self), called by itself
PS_is_access_allowed(caller_self) ==
    /\ last.op = None
    /\ pstore # <<>>
    /\ last' = StoreCall("_is_access_allowed", <<caller_self>>, None, None, None, None,
                         _is_access_allowed(pstore[1].policy, caller_self))
    /\ UNCHANGED <<credentials, callbacks, issued, attached, caller_storages, shared_rw,
                   shared_ro, handed, pstore, threads, dirs>>

\* getCredential(operation) called by c in thread t, up to the row it finds:
\* the resolution of the caller and the loop over the rows.  The thread holds
\* the row it has read; the interpreter may run another thread before
\* _enableCredentials
getCredential_find(t, c, operation) ==
    LET pathinfo == Resolved[c, ViaCMFetch]
        hit == {n \in DOMAIN credentials :
                   credentials[n].name = pathinfo.name
                   /\ Permits(credentials[n].access_level, operation)}
    IN  /\ threads[t].pc = "idle"
        /\ threads' = [threads EXCEPT ![t] =
               IF pathinfo.raised # None
               THEN [pc |-> "done", raised |-> pathinfo.raised]
               ELSE IF hit = {}
               THEN [pc |-> "done", raised |-> InvalidCredential]
               ELSE [pc |-> "found", credential |-> credentials[CHOOSE n \in hit : TRUE]]]
        /\ UNCHANGED <<credentials, callbacks, issued, attached, caller_storages, shared_rw,
                       shared_ro, last, handed, pstore, dirs>>

\* the rest of the call: _enableCredentials on the row the thread has read
getCredential_enable(t) ==
    /\ threads[t].pc = "found"
    /\ LET r == _enableCredentials(credentials, threads[t].credential)
       IN  /\ WithinBounds(r.creds)
           /\ credentials' = r.creds
           /\ threads' = [threads EXCEPT ![t] = [pc |-> "done", raised |-> None, ret |-> r.ret]]
    /\ UNCHANGED <<callbacks, issued, attached, caller_storages, shared_rw, shared_ro, last,
                   handed, pstore, dirs>>

\* the thread takes the outcome of its call
getCredential_return(t) ==
    /\ threads[t].pc = "done"
    /\ threads' = [threads EXCEPT ![t] = IdleThread]
    /\ UNCHANGED <<credentials, callbacks, issued, attached, caller_storages, shared_rw,
                   shared_ro, last, handed, pstore, dirs>>

(***************************************************************************)
(* Construction.  The argument of a constructor is None, a str or a list   *)
(* of str; a str is given by the parts of the path it spells, the empty    *)
(* str by no parts.                                                        *)
(***************************************************************************)
\* the directory the process runs in
cwd == <<"srv">>

BasePathsEmpty == "ValueError: Base paths cannot be empty."

\* Path(path).resolve(): the parts below the root directory
Resolve(path) == IF path # <<>> /\ path[1] = "/" THEN Tail(path) ELSE cwd \o path

\* Path.mkdir(parents=True, exist_ok=True)
Mkdir(fs, path) == fs \cup {SubSeq(path, 1, n) : n \in 1..Len(path)}

RECURSIVE MkdirAll(_, _, _)
MkdirAll(fs, paths, i) ==
    IF i > Len(paths) THEN fs ELSE MkdirAll(Mkdir(fs, paths[i]), paths, i + 1)

\* not base_paths or any(not path for path in base_paths), for the list a str
\* has been wrapped into
BasePathsRefused(arg) ==
    \/ arg.kind = "NoneType"
    \/ IF arg.kind = "str" THEN arg.text = <<>>
       ELSE arg.items = <<>> \/ \E i \in 1..Len(arg.items) : arg.items[i] = <<>>

\* a test that looks at the list and not at its entries
PathResolver_init_ListOnly(arg, fs) ==
    IF arg.kind = "NoneType" \/ (arg.kind = "list" /\ arg.items = <<>>)
    THEN [raised |-> BasePathsEmpty, dirs |-> fs]
    ELSE LET given == IF arg.kind = "str" THEN <<arg.text>> ELSE arg.items
             resolved == [i \in 1..Len(given) |-> Resolve(given[i])]
         IN  [raised |-> None, dirs |-> MkdirAll(fs, resolved, 1),
              base_paths |-> resolved, type |-> BaseType(resolved[1])]

\* PathResolver.__init__ in a filesystem with the directories fs
PathResolver_init(arg, fs) ==
    IF BasePathsRefused(arg)
    THEN [raised |-> BasePathsEmpty, dirs |-> fs]
    ELSE LET given == IF arg.kind = "str" THEN <<arg.text>> ELSE arg.items
             resolved == [i \in 1..Len(given) |-> Resolve(given[i])]
         IN  [raised |-> None, dirs |-> MkdirAll(fs, resolved, 1),
              base_paths |-> resolved, type |-> BaseType(resolved[1])]

\* PathResolver(base_paths)
PR_init(arg) ==
    LET r == PathResolver_init(arg, dirs)
    IN  /\ last.op = None
        /\ dirs' = r.dirs
        /\ last' = IF r.raised # None
                   THEN Call("PathResolver", None, arg, None, r.raised, None)
                   ELSE Call("PathResolver", None, arg, None, None,
                             [base_paths |-> r.base_paths, type |-> r.type])
        /\ UNCHANGED <<credentials, callbacks, issued, attached, caller_storages,
                       shared_rw, shared_ro, handed, pstore, threads>>

\* CredentialManager(credentials_roots): the new manager has an empty table
\* and no callbacks; when the resolver raises there is no new manager
CM_init(arg) ==
    LET r == PathResolver_init(arg, dirs)
    IN  /\ last.op = None
        /\ dirs' = r.dirs
        /\ IF r.raised # None
           THEN /\ last' = Call("CredentialManager", None, arg, None, r.raised, None)
                /\ UNCHANGED <<credentials, callbacks>>
           ELSE /\ last' = Call("CredentialManager", None, arg, None, None,
                                [base_paths |-> r.base_paths, type |-> r.type])
                /\ credentials' = EmptyMap
                /\ callbacks' = <<>>
        /\ UNCHANGED <<issued, attached, caller_storages, shared_rw, shared_ro,
                       handed, pstore, threads>>

\* register(access_level) called by c in thread t, up to the row it stores:
\* the resolution of the caller, the test of the zone, the new Credentials
\* and self._credentials[caller] = credential.  The interpreter may run
\* another thread before the loop over the callbacks
register_store(t, c, access_level) ==
    LET pathinfo == Resolved[c, ViaRegister]
        credential == NewCredential(pathinfo, access_level, issued + 1)
    IN  /\ threads[t].pc = "idle"
        /\ IF pathinfo.raised # None
           THEN /\ threads' = [threads EXCEPT ![t] =
                                  [pc |-> "registered", raised |-> pathinfo.raised]]
                /\ UNCHANGED <<credentials, issued>>
           ELSE IF access_level = ADMIN /\ ~canEscalateToAdmin(pathinfo)
           THEN /\ threads' = [threads EXCEPT ![t] =
                                  [pc |-> "registered", raised |-> AdminNotAllowed]]
                /\ UNCHANGED <<credentials, issued>>
           ELSE /\ issued < MaxRegs
                /\ issued' = issued + 1
                /\ credentials' = Put(credentials, pathinfo.name, credential)
                /\ threads' = [threads EXCEPT ![t] =
                                  [pc |-> "stored", credential |-> credential]]
        /\ UNCHANGED <<callbacks, attached, caller_storages, shared_rw, shared_ro, last,
                       handed, pstore, dirs>>

\* the rest of the call: the loop over the callbacks
register_callbacks(t) ==
    /\ threads[t].pc = "stored"
    /\ caller_storages' = FireCallbacks(callbacks, caller_storages, threads[t].credential)
    /\ threads' = [threads EXCEPT ![t] =
                      [pc |-> "registered", raised |-> None, ret |-> threads[t].credential]]
    /\ UNCHANGED <<credentials, callbacks, issued, attached, shared_rw, shared_ro, last,
                   handed, pstore, dirs>>

\* the thread takes the outcome of its register
register_return(t) ==
    /\ threads[t].pc = "registered"
    /\ threads' = [threads EXCEPT ![t] = IdleThread]
    /\ UNCHANGED <<credentials, callbacks, issued, attached, caller_storages, shared_rw,
                   shared_ro, last, handed, pstore, dirs>>

\* a client keeps the Credentials object register or getCredential has just
\* returned to it
Keep ==
    /\ last.op \in {"register", "getCredential"}
    /\ last.raised = None
    /\ last.ret \notin handed
    /\ Cardinality(handed) < MaxKept
    /\ handed' = handed \cup {last.ret}
    /\ UNCHANGED <<credentials, callbacks, issued, attached, caller_storages, shared_rw,
                   shared_ro, last, pstore, threads, dirs>>

\* a client handing its own callbacks to the CredentialManager
CallbacksOver(U) ==
    \E callback \in U.callbacks : CM_setRegisterCallback(callback)

\* who may do what: the callers of one name from a trusted and an untrusted
\* zone and a caller that cannot be resolved, at every level
AuthUniverse ==
    [callers |-> {"a", "p", "x"}, levels |-> AccessLevels,
     keys |-> {"k1"}, values |-> {"v1"}, defaults |-> {None, "dflt"}]

\* every zone
ZoneUniverse ==
    [callers |-> {"a", "p", "u", "n", "x"}, levels |-> {ADMIN, READ_WRITE},
     keys |-> {"k1"}, values |-> {"v1"}, defaults |-> {None}]

\* two names, two keys and two values: what the namespaces hold
DataUniverse ==
    [callers |-> {"a", "b"}, levels |-> {ADMIN},
     keys |-> {"k1", "k2"}, values |-> {"v1"}, defaults |-> {None}]

\* one key and three values: one key in the three namespaces
KeyUniverse ==
    [callers |-> {"a", "b"}, levels |-> {ADMIN},
     keys |-> {"k1"}, values |-> {"v1", "v2", "v3"}, defaults |-> {None}]

\* one store as a finite map: two keys, two values and a default given to get;
\* at level READ_ONLY the writes leave access_count alone, so that a run holds
\* many of them
MapUniverse ==
    [callers |-> {"a", "x"}, levels |-> {READ_ONLY},
     keys |-> {"k1", "k2"}, values |-> {"v1", "v2"}, defaults |-> {None, "dflt"}]

\* the credential table: two names, a caller that cannot be resolved, every
\* level and operation
CMUniverse ==
    [callers |-> {"a", "b", "x"}, levels |-> AccessLevels,
     operations |-> {READ, WRITE}, names |-> {"alpha", "beta", "gamma"}]

\* the store used, meanwhile, by the caller that cannot be resolved
OutsiderUniverse ==
    [callers |-> {"x"}, levels |-> {READ_ONLY},
     keys |-> {"k1"}, values |-> {"v1"}, defaults |-> {None}]

\* the register callbacks: a callback that raises and one that returns ("rec"),
\* set before or after the store attaches its own
CallbackUniverse ==
    [callers |-> {"a", "b"}, levels |-> {READ_WRITE},
     keys |-> {"k1"}, values |-> {"v1"}, defaults |-> {None},
     callbacks |-> RaisingCallbacks \cup {"rec"}]

\* clients that keep what register and getCredential return
HandedUniverse ==
    [callers |-> {"a"}, levels |-> {READ_ONLY, ADMIN}, operations |-> {READ, WRITE},
     names |-> {"alpha"}]

\* the source files of the frames of a stack: under one root, under a root
\* and a root nested in it, under a root of another zone, under no root, and
\* the resolver's own
FrameFiles ==
    {CallerFile("a"), <<"srv", "core", "ext", "mod", "x.py">>, CallerFile("p"),
     CallerFile("x"), LibPR}

Stacks == UNION {[1..n -> FrameFiles] : n \in 1..MaxStack}

\* the configurations of a resolver: some of three roots, one nested in
\* another, in every order
Roots == {<<"srv", "core">>, <<"srv", "Plugins">>, <<"srv", "core", "ext">>}

RootOrders ==
    {o \in UNION {[1..n -> Roots] : n \in 1..Cardinality(Roots)} :
        \A i, j \in 1..Len(o) : o[i] = o[j] => i = j}

\* the callers of a CredentialManager that resolve and that do not
ResolverUniverse ==
    [callers |-> {"a", "x"}, levels |-> {READ_ONLY}, operations |-> {READ},
     names |-> {"alpha"}]

\* the objects of the code that uses a ProtectedStore of its own: the
\* accessor, another instance of its class and an instance of another class
authorized_instance == [id |-> "authorized_instance", cls |-> "MockAuthorizedClass"]
instance2 == [id |-> "instance2", cls |-> "MockAuthorizedClass"]
unauthorized_instance == [id |-> "unauthorized_instance", cls |-> "MockUnauthorizedClass"]

Principals == {authorized_instance, instance2, unauthorized_instance}

\* a validator that returns True for the accessor alone, and one that raises
custom_validator ==
    [kind |-> "instance", id |-> "custom_validator", cls |-> "function", callable |-> TRUE,
     returns |-> [i \in {x.id : x \in Principals \cup {AStore}} |->
                     IF i = "authorized_instance" THEN "True" ELSE "False"]]
faulty_validator ==
    [kind |-> "instance", id |-> "faulty_validator", cls |-> "function", callable |-> TRUE,
     returns |-> [i \in {x.id : x \in Principals \cup {AStore}} |-> "raise"]]

\* the allowed_accessor of the store: the accessor object, its class, the name
\* of its class, the validators, and the class of the store itself
Accessors ==
    {[kind |-> "instance", id |-> "authorized_instance", cls |-> "MockAuthorizedClass",
      callable |-> FALSE],
     [kind |-> "type", cls |-> "MockAuthorizedClass"],
     [kind |-> "str", name |-> "MockAuthorizedClass"],
     custom_validator, faulty_validator,
     [kind |-> "type", cls |-> "ProtectedStore"]}

\* the selves of the frames that call the store, the calling frame first; a
\* frame of a function has none
Chains == UNION {[1..n -> Principals \cup {NoSelf}] : n \in 1..MaxChain}

StoreUniverse ==
    [accessors |-> Accessors \cup {NoAccessor}, methods |-> StoreMethods, chains |-> Chains,
     selves |-> Principals \cup {NoSelf, AStore},
     keys |-> {"k1"}, values |-> {"v1", "v2"}, defaults |-> {None}]

\* the callers of getCredential in the threads of a client
ThreadUniverse ==
    [callers |-> {"a", "b", "x"}, levels |-> {READ_WRITE, WRITE_ONLY}, operations |-> {READ}]

\* the callers of register in the threads of a client, and what another
\* thread looks at meanwhile
RegisterUniverse ==
    [callers |-> {"a", "b"}, levels |-> {READ_ONLY}, names |-> {"alpha", "beta"},
     keys |-> {"k1"}, values |-> {"v1"}, defaults |-> {None}]

\* what a client gives a constructor as roots
RootStrings == {Parts(r) : r \in Roots} \cup {<<"plugins">>, <<>>}
RootArguments ==
    {[kind |-> "NoneType"]}
        \cup {[kind |-> "str", text |-> s] : s \in RootStrings}
        \cup {[kind |-> "list", items |-> l] :
                 l \in UNION {[1..n -> RootStrings] : n \in 0..MaxRoots}}

Next == NextOver(AuthUniverse)
NextZones == NextOver(ZoneUniverse)
NextData == NextOver(DataUniverse)
NextKey == NextOver(KeyUniverse)
NextMap == NextOver(MapUniverse)
NextCM == NextOver(OutsiderUniverse) \/ CMOver(CMUniverse)
NextCallbacks == NextOver(CallbackUniverse) \/ CallbacksOver(CallbackUniverse)
NextHanded == Return \/ CMOver(HandedUniverse) \/ Keep
NextStore ==
    \/ Return
    \/ \E allowed_accessor \in StoreUniverse.accessors : PS_init(allowed_accessor)
    \/ /\ last.op = None
       /\ pstore # <<>>
       /\ \E method \in StoreUniverse.methods, chain \in StoreUniverse.chains,
             key \in StoreUniverse.keys, value \in StoreUniverse.values,
             default \in StoreUniverse.defaults :
              PS_call(method, chain, key, value, default)
    \/ \E caller_self \in StoreUniverse.selves : PS_is_access_allowed(caller_self)
NextThreads ==
    \/ Return
    \/ \E c \in ThreadUniverse.callers, access_level \in ThreadUniverse.levels :
           Register(c, access_level)
    \/ \E t \in Threads, c \in ThreadUniverse.callers, operation \in ThreadUniverse.operations :
           getCredential_find(t, c, operation)
    \/ \E t \in Threads : getCredential_enable(t)
    \/ \E t \in Threads : getCredential_return(t)
\* the client constructs the KVStore, then registers in its threads
NextRegister ==
    \/ Return
    \/ KVStoreInit
    \/ /\ attached
       /\ \E t \in Threads, c \in RegisterUniverse.callers,
             access_level \in RegisterUniverse.levels : register_store(t, c, access_level)
    \/ \E t \in Threads : register_callbacks(t)
    \/ \E t \in Threads : register_return(t)
    \/ \E caller_name \in RegisterUniverse.names : CM_has_credential(caller_name)
    \/ \E c \in RegisterUniverse.callers, key \in RegisterUniverse.keys,
          value \in RegisterUniverse.values : KV_set(c, key, value)
    \/ \E c \in RegisterUniverse.callers, key \in RegisterUniverse.keys,
          default \in RegisterUniverse.defaults : KV_get(c, key, default)
NextConstruct ==
    \/ Return
    \/ /\ last.op = None
       /\ \E arg \in RootArguments : PR_init(arg)
    \/ /\ last.op = None
       /\ \E arg \in RootArguments : CM_init(arg)
NextResolver ==
    \/ Return
    \/ /\ last.op = None
       /\ \E self_base_paths \in RootOrders, stacks \in Stacks :
              PR_getPathInfo(self_base_paths, stacks)
    \/ CMOver(ResolverUniverse)

Spec == Init /\ [][Next]_vars
SpecZones == Init /\ [][NextZones]_vars
SpecData == Init /\ [][NextData]_vars
SpecKey == Init /\ [][NextKey]_vars
SpecMap == Init /\ [][NextMap]_vars
SpecCM == Init /\ [][NextCM]_vars
SpecCallbacks == Init /\ [][NextCallbacks]_vars
SpecHanded == Init /\ [][NextHanded]_vars
SpecThreads == Init /\ [][NextThreads]_vars
SpecRegister == Init /\ [][NextRegister]_vars
SpecConstruct == Init /\ [][NextConstruct]_vars
SpecStore == Init /\ [][NextStore]_vars
SpecResolver == Init /\ [][NextResolver]_vars

(***************************************************************************)
(* Vocabulary of the properties.                                           *)
(***************************************************************************)
PrivateOps == {"set", "get", "has", "delete", "clear", "keys", "values"}
SharedOps == {"shared_set", "shared_get", "shared_has", "shared_delete", "shared_clear",
              "shared_keys", "shared_values"}
ReadonlyOps == {"readonly_set", "readonly_get", "readonly_has", "readonly_delete",
                "readonly_clear", "readonly_keys", "readonly_values"}
ReadonlyWrites == {"readonly_set", "readonly_delete", "readonly_clear"}
ReadonlyReads == ReadonlyOps \ ReadonlyWrites
WriteOps == {"set", "delete", "clear", "shared_set", "shared_delete", "shared_clear"}
               \cup ReadonlyWrites

\* the operation a KVStore method asks validate for
OperationOf(op) == IF op \in WriteOps THEN WRITE ELSE READ

\* the errors the specification calls PermissionDenied
PermissionDenied == {AdminRequired, AccessorOnly, InvalidCredential}

\* the caller resolves
Resolves(c) == Resolved[c, ViaRegister].raised = None
NameOf(c) == Resolved[c, ViaRegister].name
ZoneOf(c) == Resolved[c, ViaRegister].type

\* a row is stored under the caller's resolved name
HasRow(creds, c) == Resolves(c) /\ NameOf(c) \in DOMAIN creds

\* validate(operation) is true for the caller, by the level table
Validates(creds, c, operation) ==
    /\ HasRow(creds, c)
    /\ \/ creds[NameOf(c)].access_level \in {ADMIN, READ_WRITE}
       \/ creds[NameOf(c)].access_level = WRITE_ONLY /\ operation = WRITE
       \/ creds[NameOf(c)].access_level = READ_ONLY /\ operation = READ

\* the zone is forbidden from admin, by substring
ZoneForbidden(z) == StrIn("plugin", z) \/ StrIn("unknown", z)

IsRegisterAdmin(l) == l.op = "register" /\ l.key = ADMIN /\ Resolves(l.caller)

(***************************************************************************)
(* C1  Zone-admin gate.                                                    *)
(***************************************************************************)
\* C1 as stated: register(ADMIN) by a caller of zone z succeeds if and only if
\* z does not contain 'plugin' and z is not equal to 'unknown'.
C1_GateAsStated ==
    IsRegisterAdmin(last) =>
        (last.raised = None <=>
            (~StrIn("plugin", ZoneOf(last.caller)) /\ ZoneOf(last.caller) # "unknown"))

\* C1 amended: register(ADMIN) by a caller of zone z succeeds, storing and
\* returning an ADMIN row under the caller's name, if and only if z contains
\* neither 'plugin' nor 'unknown' as a substring; otherwise it raises and the
\* credential table and the private stores are unchanged.
C1_ZoneAdminGate ==
    [][IsRegisterAdmin(last') =>
        IF ZoneForbidden(ZoneOf(last'.caller))
        THEN /\ last'.raised = AdminNotAllowed
             /\ credentials' = credentials
             /\ caller_storages' = caller_storages
        ELSE /\ last'.raised = None
             /\ NameOf(last'.caller) \in DOMAIN credentials'
             /\ credentials'[NameOf(last'.caller)].access_level = ADMIN
             /\ credentials'[NameOf(last'.caller)] = last'.ret]_vars

\* a caller of zone 'unknowns' was refused ADMIN while another name holds an
\* ADMIN row
C1_Witness ==
    /\ IsRegisterAdmin(last)
    /\ last.raised = AdminNotAllowed
    /\ ZoneOf(last.caller) = "unknowns"
    /\ \E n \in DOMAIN credentials : credentials[n].access_level = ADMIN

(***************************************************************************)
(* C2  Writes to the shared read-only namespace need an ADMIN row.         *)
(***************************************************************************)
\* C2: readonly_set, readonly_delete and readonly_clear succeed only when the
\* row stored under the caller's resolved name has level ADMIN; for any other
\* caller (another level, no row, not resolvable) the call raises
\* PermissionError and the shared read-only map is unchanged.
C2_AdminOnlyWrites ==
    [][last'.op \in ReadonlyWrites =>
        LET isAdmin == /\ HasRow(credentials, last'.caller)
                       /\ credentials[NameOf(last'.caller)].access_level = ADMIN
        IN  /\ last'.raised = None => isAdmin
            /\ ~isAdmin => (last'.raised = AdminRequired /\ shared_ro' = shared_ro)]_vars

\* a caller whose row is not ADMIN was refused and the map still holds what
\* an administrator wrote
C2_Witness ==
    /\ last.op \in ReadonlyWrites
    /\ last.raised = AdminRequired
    /\ HasRow(credentials, last.caller)
    /\ credentials[NameOf(last.caller)].access_level # ADMIN
    /\ shared_ro # EmptyMap

(***************************************************************************)
(* C3  No write to the shared read-only namespace from a forbidden zone.   *)
(***************************************************************************)
\* C3: a readonly_set, readonly_delete or readonly_clear whose caller resolves
\* to an admin-forbidden zone never succeeds.
C3_ForbiddenZoneNeverWrites ==
    (last.op \in ReadonlyWrites /\ last.raised = None) =>
        (Resolves(last.caller) /\ ~ZoneForbidden(ZoneOf(last.caller)))

(***************************************************************************)
(* C4  Private stores are isolated by caller name.                         *)
(***************************************************************************)
\* what the private reads of caller c return on the registry storages: the
\* error, or the keys, the value of each key and the values
PrivateView(storages, c) ==
    LET s == _get_caller_storage(storages, c, ViaStorage)
    IN  IF s.raised # None
        THEN [raised |-> s.raised, keys |-> {}, get |-> EmptyMap, values |-> EmptyMap]
        ELSE [raised |-> None, keys |-> DOMAIN storages[s.name],
              get |-> [k \in DOMAIN storages[s.name] |-> storages[s.name][k]],
              values |-> DictValues(storages[s.name])]

\* C4: a private set, delete or clear by a caller resolved as A changes nothing
\* of what private get, has, keys and values return to a caller resolved as
\* another name B.
C4_PrivateIsolation ==
    [][(last'.op \in {"set", "delete", "clear"} /\ Resolves(last'.caller)) =>
        \A cb \in Callers :
            (Resolves(cb) /\ NameOf(cb) # NameOf(last'.caller)) =>
                PrivateView(caller_storages', cb) = PrivateView(caller_storages, cb)]_vars

\* a caller has just set a key that another name holds with another value
C4_Witness ==
    /\ last.op = "set"
    /\ last.raised = None
    /\ \E n \in DOMAIN caller_storages :
           /\ n # NameOf(last.caller)
           /\ last.key \in DOMAIN caller_storages[n]
           /\ caller_storages[n][last.key] # last.val
           /\ caller_storages[NameOf(last.caller)][last.key] = last.val

(***************************************************************************)
(* C5  The shared read-write namespace asks validate.                      *)
(***************************************************************************)
\* C5: a shared_* call succeeds only if validate(op) is true for the caller.
C5_SharedNeedsValidate ==
    (last.op \in SharedOps /\ last.raised = None) =>
        Validates(credentials, last.caller, OperationOf(last.op))

(***************************************************************************)
(* C6  Reads of the shared read-only namespace ask validate.               *)
(***************************************************************************)
\* C6: readonly_get, readonly_has, readonly_keys and readonly_values succeed
\* only if validate(READ) is true for the caller.
C6_ReadonlyReadNeedsValidate ==
    (last.op \in ReadonlyReads /\ last.raised = None) =>
        Validates(credentials, last.caller, READ)

(***************************************************************************)
(* C7  A READ_ONLY caller cannot set a private key.                        *)
(***************************************************************************)
\* C7: for a caller registered READ_ONLY (with a private store) set(k, v)
\* fails with PermissionDenied, and get(k) of an absent key returns the default.
C7_ReadOnlyCannotSet ==
    (/\ last.op \in {"set", "get"}
     /\ HasRow(credentials, last.caller)
     /\ credentials[NameOf(last.caller)].access_level = READ_ONLY
     /\ NameOf(last.caller) \in DOMAIN caller_storages) =>
        IF last.op = "set"
        THEN last.raised \in PermissionDenied
        ELSE /\ last.raised = None
             /\ last.key \notin DOMAIN caller_storages[NameOf(last.caller)] => last.ret = last.val

(***************************************************************************)
(* C8  A private call of a caller that has no private store.               *)
(***************************************************************************)
\* C8: every private call by a resolvable caller whose name has no private
\* store raises ValueError 'No storage found for caller' and changes no store;
\* for a caller that cannot be resolved the resolver's error comes out.
C8_NoStoreNotRegistered ==
    [][last'.op \in PrivateOps =>
        /\ ~Resolves(last'.caller) =>
               /\ last'.raised = UnknownCaller
               /\ UNCHANGED <<caller_storages, shared_rw, shared_ro>>
        /\ (Resolves(last'.caller) /\ NameOf(last'.caller) \notin DOMAIN caller_storages) =>
               /\ last'.raised = NoStorage
               /\ UNCHANGED <<caller_storages, shared_rw, shared_ro>>]_vars

\* a resolvable caller without a private store was refused while the shared
\* store holds data
C8_Witness ==
    /\ last.op \in PrivateOps
    /\ last.raised = NoStorage
    /\ Resolves(last.caller)
    /\ shared_rw # EmptyMap

(***************************************************************************)
(* C9  The three namespaces are independent.                               *)
(***************************************************************************)
\* C9: a call on one of the private, shared read-write and shared read-only
\* namespaces leaves the contents of the other two unchanged, and a get on a
\* namespace returns that namespace's own value of the key.
C9_NamespacesIndependent ==
    [][/\ last'.op \in PrivateOps =>
            /\ UNCHANGED <<shared_rw, shared_ro>>
            /\ (last'.op = "get" /\ last'.raised = None) =>
                   LET m == caller_storages[NameOf(last'.caller)]
                   IN  last'.ret = IF last'.key \in DOMAIN m THEN m[last'.key] ELSE last'.val
       /\ last'.op \in SharedOps =>
            /\ UNCHANGED <<caller_storages, shared_ro>>
            /\ (last'.op = "shared_get" /\ last'.raised = None) =>
                   last'.ret = IF last'.key \in DOMAIN shared_rw
                               THEN shared_rw[last'.key] ELSE last'.val
       /\ last'.op \in ReadonlyOps =>
            /\ UNCHANGED <<caller_storages, shared_rw>>
            /\ (last'.op = "readonly_get" /\ last'.raised = None) =>
                   last'.ret = IF last'.key \in DOMAIN shared_ro
                               THEN shared_ro[last'.key] ELSE last'.val]_vars

\* one key holds three different values in the three namespaces and a get
\* has just returned the private one
C9_Witness ==
    /\ last.op = "get"
    /\ last.raised = None
    /\ last.key \in DOMAIN shared_rw
    /\ last.key \in DOMAIN shared_ro
    /\ last.key \in DOMAIN caller_storages[NameOf(last.caller)]
    /\ last.ret = caller_storages[NameOf(last.caller)][last.key]
    /\ last.ret # shared_rw[last.key]
    /\ last.ret # shared_ro[last.key]
    /\ shared_rw[last.key] # shared_ro[last.key]

(***************************************************************************)
(* C10  Shared convergence.                                                *)
(***************************************************************************)
\* what a get of key k on the contents m returns: the value, or <<>> when
\* the key is absent
Held(m, k) == IF k \in DOMAIN m THEN <<m[k]>> ELSE <<>>

\* the calls on a namespace (prefix shared_ or readonly_) that change what key k holds
Overwrites(l, prefix, k) ==
    \/ l.op = prefix.set /\ l.key = k
    \/ l.op = prefix.delete /\ l.key = k
    \/ l.op = prefix.clear

SharedNames == [set |-> "shared_set", get |-> "shared_get", delete |-> "shared_delete",
                clear |-> "shared_clear"]
ReadonlyNames == [set |-> "readonly_set", get |-> "readonly_get",
                  delete |-> "readonly_delete", clear |-> "readonly_clear"]

\* for one namespace with contents m (m2 after the step): a set that returned
\* leaves the key holding the value; a step that is no set, delete or clear of
\* the namespace leaves every key as it was; a get that returned gave the held value
Converges(l, prefix, m, m2) ==
    /\ (l.op = prefix.set /\ l.raised = None) => Held(m2, l.key) = <<l.val>>
    /\ \A k \in DOMAIN m \cup DOMAIN m2 : ~Overwrites(l, prefix, k) => Held(m2, k) = Held(m, k)
    /\ (l.op = prefix.get /\ l.raised = None) =>
           l.ret = IF Held(m, l.key) # <<>> THEN Held(m, l.key)[1] ELSE l.val

\* C10: after shared_set(k, v) has returned, every later shared_get(k) by any
\* caller returns v until a shared_set(k, .), shared_delete(k) or shared_clear()
\* takes effect; the same for readonly_set and readonly_get.
C10_SharedConvergence ==
    [][/\ Converges(last', SharedNames, shared_rw, shared_rw')
       /\ Converges(last', ReadonlyNames, shared_ro, shared_ro')]_vars

\* with two names registered, a shared_get has returned the value the key
\* holds after an overwrite, and the read-only store holds a value too
C10_Witness ==
    /\ last.op = "shared_get"
    /\ last.raised = None
    /\ last.key \in DOMAIN shared_rw
    /\ last.ret = shared_rw[last.key]
    /\ last.ret # "v1"
    /\ shared_ro # EmptyMap
    /\ Cardinality(DOMAIN credentials) = 2

(***************************************************************************)
(* C11  The private namespace of a caller is a finite map.                 *)
(***************************************************************************)
\* the private calls that change a store
PrivateWrites == {"set", "delete", "clear"}

\* one private call l that returned, on the caller's store m (m2 after it):
\* set leaves the key holding the value, delete leaves it absent, both leave
\* every other key as it was, clear leaves no key; get gives the held value or
\* the default, has tells whether the key is held, keys gives the keys held,
\* and the reads leave the store as it was
FiniteMapStep(l, m, m2) ==
    /\ l.op = "set" =>
           /\ Held(m2, l.key) = <<l.val>>
           /\ \A k \in (DOMAIN m \cup DOMAIN m2) \ {l.key} : Held(m2, k) = Held(m, k)
    /\ l.op = "delete" =>
           /\ Held(m2, l.key) = <<>>
           /\ \A k \in (DOMAIN m \cup DOMAIN m2) \ {l.key} : Held(m2, k) = Held(m, k)
    /\ l.op = "clear" => DOMAIN m2 = {}
    /\ l.op = "get" =>
           l.ret = IF Held(m, l.key) # <<>> THEN Held(m, l.key)[1] ELSE l.val
    /\ l.op = "has" => l.ret = (Held(m, l.key) # <<>>)
    /\ l.op = "keys" => l.ret = DOMAIN m
    /\ l.op \notin PrivateWrites => m2 = m

C12_DeleteAbsentNoOp ==
    [][/\ (/\ last'.op = "delete"
           /\ Resolves(last'.caller)
           /\ NameOf(last'.caller) \in DOMAIN caller_storages
           /\ last'.key \notin DOMAIN caller_storages[NameOf(last'.caller)]) =>
              (last'.raised = None /\ caller_storages' = caller_storages)
       /\ (last'.op = "shared_delete" /\ last'.key \notin DOMAIN shared_rw) =>
              (last'.raised = None /\ shared_rw' = shared_rw)
       /\ (/\ last'.op = "readonly_delete"
           /\ HasRow(credentials, last'.caller)
           /\ credentials[NameOf(last'.caller)].access_level = ADMIN
           /\ last'.key \notin DOMAIN shared_ro) =>
              (last'.raised = None /\ shared_ro' = shared_ro)]_vars

\* an administrator's readonly_delete of a key has returned and the read-only
\* store holds the other key only
C12_Witness ==
    /\ last.op = "readonly_delete"
    /\ last.raised = None
    /\ last.key \notin DOMAIN shared_ro
    /\ DOMAIN shared_ro # {}
    /\ DOMAIN shared_rw # {}

(***************************************************************************)
(* C13  The answer of validate.                                            *)
(***************************************************************************)
\* C13: validate(op) raises nothing, and returns true exactly when the caller
\* resolves, a row is stored under its name and the row's level permits op
\* (ADMIN and READ_WRITE both operations, WRITE_ONLY WRITE, READ_ONLY READ).
C13_ValidateTable ==
    [][last'.op = "validate" =>
        /\ last'.raised = None
        /\ last'.ret = Validates(credentials, last'.caller, last'.key)]_vars

\* validate(READ) has answered false to a caller whose row is WRITE_ONLY
C13_Witness ==
    /\ last.op = "validate"
    /\ last.key = READ
    /\ last.ret = FALSE
    /\ HasRow(credentials, last.caller)
    /\ credentials[NameOf(last.caller)].access_level = WRITE_ONLY

(***************************************************************************)
(* C14  validate and the credential table.                                 *)
(***************************************************************************)
\* C14: validate(op) leaves the credential table as it was, whatever it answers.
C14_ValidateReadOnly ==
    [][last'.op = "validate" => credentials' = credentials]_vars

C16_FetchErrors ==
    [][last'.op = "getCredential" =>
        /\ ~Resolves(last'.caller) => last'.raised = UnknownCaller
        /\ (Resolves(last'.caller) /\ ~Validates(credentials, last'.caller, last'.key)) =>
               last'.raised = InvalidCredential
        /\ last'.raised # None => credentials' = credentials]_vars

\* getCredential(WRITE) was refused to a caller whose row is READ_ONLY and has
\* been fetched before
C16_Witness ==
    /\ last.op = "getCredential"
    /\ last.key = WRITE
    /\ last.raised = InvalidCredential
    /\ HasRow(credentials, last.caller)
    /\ credentials[NameOf(last.caller)].access_level = READ_ONLY
    /\ credentials[NameOf(last.caller)].enabled

(***************************************************************************)
(* C17  A second register under one name.                                  *)
(***************************************************************************)
\* a register that has returned
Registered(l) == l.op = "register" /\ l.raised = None

\* C17: a register under a name that has a row leaves exactly one row for the
\* name, with a new key, the level asked for, enabled = false and
\* access_count = 0, and the old key in no row; getKey returns the key of the
\* row stored under the caller's name and getCredential a credential with it.
C17_ReRegister ==
    [][/\ (Registered(last') /\ NameOf(last'.caller) \in DOMAIN credentials) =>
              LET n == NameOf(last'.caller)
                  new == credentials'[n]
              IN  /\ DOMAIN credentials' = DOMAIN credentials
                  /\ new = last'.ret
                  /\ new.key # credentials[n].key
                  /\ new.access_level = last'.key
                  /\ new.enabled = FALSE
                  /\ new.access_count = 0
                  /\ \A m \in DOMAIN credentials' : credentials'[m].key # credentials[n].key
       /\ (last'.op = "getKey" /\ last'.raised = None) =>
              last'.ret = credentials[NameOf(last'.caller)].key
       /\ (last'.op = "getCredential" /\ last'.raised = None) =>
              last'.ret.key = credentials[NameOf(last'.caller)].key]_vars

\* getKey has returned the second key issued, to the only name of the table,
\* whose level is another than READ_ONLY
C17_Witness ==
    /\ last.op = "getKey"
    /\ last.raised = None
    /\ last.ret = <<"alpha", "_", 2>>
    /\ DOMAIN credentials = {"alpha"}
    /\ credentials["alpha"].key = last.ret
    /\ credentials["alpha"].access_level = WRITE_ONLY
    /\ credentials["alpha"].access_count = 0

(***************************************************************************)
(* C18  One row per registered name.                                       *)
(***************************************************************************)
\* C18: a register that returns adds the caller's name to the names of the
\* table (which are none at the start) and no other step changes them;
\* get_credential_count() returns their number and has_credential(n) tells
\* whether n is one of them.
C18_RowPerName ==
    [][/\ IF Registered(last')
          THEN DOMAIN credentials' = DOMAIN credentials \cup {NameOf(last'.caller)}
          ELSE DOMAIN credentials' = DOMAIN credentials
       /\ last'.op = "get_credential_count" =>
              (last'.raised = None /\ last'.ret = Cardinality(DOMAIN credentials))
       /\ last'.op = "has_credential" =>
              (last'.raised = None /\ last'.ret = (last'.key \in DOMAIN credentials))]_vars

\* get_credential_count has returned 1 after two registers under one name
C18_Witness ==
    /\ last.op = "get_credential_count"
    /\ last.ret = 1
    /\ issued = 2

(***************************************************************************)
(* C19  The credential a register builds.                                  *)
(***************************************************************************)
\* C19: a register(level) that returns stores under the caller's resolved name,
\* and returns, a credential with that name, the level asked for, the resolved
\* zone, enabled = false, access_count = 0 and a key that starts with the name
\* and '_'; every row of the table is stored under its own name and its key
\* starts with that name and '_'.
C19_RegisterResult ==
    [][/\ Registered(last') =>
              LET n == NameOf(last'.caller)
                  row == credentials'[n]
              IN  /\ row = last'.ret
                  /\ row.name = n
                  /\ row.access_level = last'.key
                  /\ row.type = ZoneOf(last'.caller)
                  /\ row.enabled = FALSE
                  /\ row.access_count = 0
                  /\ row.key[1] = n /\ row.key[2] = "_"
       /\ \A m \in DOMAIN credentials' :
              /\ credentials'[m].name = m
              /\ credentials'[m].key[1] = m /\ credentials'[m].key[2] = "_"]_vars

\* a register(WRITE_ONLY) of a second name has returned while the row of the
\* first has been fetched twice
C19_Witness ==
    /\ Registered(last)
    /\ last.key = WRITE_ONLY
    /\ NameOf(last.caller) = "beta"
    /\ "alpha" \in DOMAIN credentials
    /\ credentials["alpha"].access_count = 2

(***************************************************************************)
(* C20  A register callback that raises.                                   *)
(***************************************************************************)
\* C20: with a callback that raises among the callbacks, a register that passes
\* the admin gate still stores the row and returns it, raises nothing, and the
\* callbacks after the raising one are called with the new credential (the
\* store's callback makes the private store of the name).
C20_CallbackRaises ==
    [][(/\ last'.op = "register"
        /\ Resolves(last'.caller)
        /\ \E i \in 1..Len(callbacks) : callbacks[i] \in RaisingCallbacks) =>
            LET n == NameOf(last'.caller)
            IN  /\ last'.raised = None
                /\ n \in DOMAIN credentials'
                /\ credentials'[n] = last'.ret
                /\ \A j \in 1..Len(callbacks) :
                       callbacks[j] = "kv" =>
                           /\ n \in DOMAIN caller_storages'
                           /\ caller_storages'[n] = EmptyMap]_vars

\* a register has returned with the raising callback ahead of the store's in
\* the list, the name has its private store and another name's store holds data
C20_Witness ==
    /\ Registered(last)
    /\ callbacks = <<"boom", "kv">>
    /\ NameOf(last.caller) \in DOMAIN caller_storages
    /\ \E m \in DOMAIN caller_storages : caller_storages[m] # EmptyMap

(***************************************************************************)
(* C21  setRegisterCallback keeps one entry per callback.                  *)
(***************************************************************************)
\* C21: setRegisterCallback(cb) appends cb to the callbacks when it is not among
\* them and changes nothing when it is, so that no callback is in the list
\* twice; a register that returns calls every callback of the list once, in
\* the order of the list, which is the order in which they were first set.
C21_CallbackOnce ==
    [][/\ last'.op \in {"setRegisterCallback", "KVStore"} =>
              LET callback == IF last'.op = "KVStore" THEN "kv" ELSE last'.key
              IN  callbacks' = IF \E i \in 1..Len(callbacks) : callbacks[i] = callback
                               THEN callbacks
                               ELSE Append(callbacks, callback)
       /\ last'.op \notin {"setRegisterCallback", "KVStore"} => callbacks' = callbacks
       /\ \A i, j \in 1..Len(callbacks') : callbacks'[i] = callbacks'[j] => i = j
       /\ Registered(last') => last'.val = callbacks]_vars

\* a register has called three callbacks, the store's between the client's two
C21_Witness ==
    /\ Registered(last)
    /\ last.val = <<"rec", "kv", "boom">>
    /\ callbacks = last.val

(***************************************************************************)
(* C22  A private store for every row.                                     *)
(***************************************************************************)
\* C22: once a KVStore is attached, every name with a row in the credential
\* table has a private store in it, and a private operation of a caller that
\* has a row never raises 'No storage found for caller'.
C22_RowHasStorage ==
    attached =>
        /\ \A caller_name \in DOMAIN credentials : caller_name \in DOMAIN caller_storages
        /\ \A c \in Callers :
               (last.op \in PrivateOps /\ last.caller = c /\ HasRow(credentials, c))
                   => last.raised # NoStorage

(***************************************************************************)
(* C23  A Credentials object does not change once handed out.              *)
(***************************************************************************)
\* C23: the Credentials object a caller has kept holds the fields it held when
\* the caller received it, whatever validate, getCredential and register do
\* afterwards: the object register returned stays enabled = false with count 0
\* and its key and level, no object in the table or handed out later is the
\* same object with other fields, and getCredential returns an object that is
\* neither one handed out before nor the row it read.
C23_HandedNeverChanges ==
    [][/\ \A h \in handed' :
              /\ \A n \in DOMAIN credentials' :
                     credentials'[n].id = h.id => credentials'[n] = h
              /\ \A g \in handed' : g.id = h.id => g = h
              /\ last'.op # None /\ last'.raised = None /\ last'.op \in {"register", "getCredential"}
                     /\ last'.ret.id = h.id => last'.ret = h
              /\ h.id[2] = "register" => h.enabled = FALSE /\ h.access_count = 0
       /\ (last'.op = "getCredential" /\ last'.raised = None /\ last.op = None) =>
              /\ \A h \in handed : last'.ret.id # h.id
              /\ last'.ret.id # credentials[NameOf(last'.caller)].id]_vars

\* the caller keeps the object register returned and the object of a later
\* getCredential, and the row has been fetched twice and replaced since
C23_Witness ==
    /\ \E h \in handed : h.id[2] = "register" /\ h.name = "alpha" /\ ~h.enabled
    /\ \E h \in handed : h.id[2] = "enabled_credential" /\ h.name = "alpha"
                             /\ h.access_count = 1
    /\ credentials["alpha"].access_count = 2
    /\ \E h \in handed : h.key = credentials["alpha"].key

(***************************************************************************)
(* C24 to C26  The resolver.                                               *)
(***************************************************************************)
\* file lies strictly under root
Under(file, root) == Len(root) < Len(file) /\ SubSeq(file, 1, Len(root)) = root

\* the frames getPathInfo may use, outermost first: all but its own
Examined(stacks) == SubSeq(stacks, 1, Len(stacks) - 1)

\* the frames of stacks that lie under a root of roots
UnderSomeRoot(roots, stacks) ==
    {i \in 1..Len(Examined(stacks)) :
        \E k \in 1..Len(roots) : Under(Examined(stacks)[i], roots[k])}

\* C24: getPathInfo never uses its own frame, and from the others it takes the
\* innermost one that lies under a root: the path it returns is that frame's
\* file and the name is a segment of that file, whatever the frames further
\* out and the resolver's own frame are.
C24_InnermostFrame ==
    (last.op = "getPathInfo" /\ UnderSomeRoot(last.key, last.val) # {}) =>
        LET hits == UnderSomeRoot(last.key, last.val)
            i == CHOOSE i \in hits : \A j \in hits : j <= i
            frame == Examined(last.val)[i]
        IN  /\ last.raised = None
            /\ last.ret.path = frame
            /\ \E k \in 1..Len(last.key) :
                   /\ Under(frame, last.key[k])
                   /\ last.ret.name = frame[Len(last.key[k]) + 1]
            /\ \A j \in 1..Len(Examined(last.val)) :
                   j > i => \A k \in 1..Len(last.key) :
                                ~Under(Examined(last.val)[j], last.key[k])

\* the innermost frame under a root is the caller's, under core; the frame
\* further out lies under another root, with another zone
C24_Witness ==
    /\ last.op = "getPathInfo"
    /\ last.val = <<CallerFile("p"), CallerFile("a"), LibPR>>
    /\ Len(last.key) = 3
    /\ last.raised = None
    /\ last.ret.type = "core"
    /\ last.ret.name = "alpha"

\* C25: when the frame lies under several roots the deepest of them decides:
\* the zone is its last segment in lower case and the name the first segment
\* of the file below it, in whatever order the roots are configured.
C25_DeepestRoot ==
    (last.op = "getPathInfo" /\ last.raised = None) =>
        LET frame == last.ret.path
            over == {k \in 1..Len(last.key) : Under(frame, last.key[k])}
            best == last.key[CHOOSE k \in over :
                                 \A j \in over : Len(last.key[j]) <= Len(last.key[k])]
        IN  /\ over # {}
            /\ last.ret.type = Lower(best[Len(best)])
            /\ last.ret.name = frame[Len(best) + 1]
            /\ \A o \in RootOrders :
                   {o[k] : k \in 1..Len(o)} = {last.key[k] : k \in 1..Len(last.key)}
                       => LET r == getPathInfo(o, last.val)
                          IN  /\ r.raised = None
                              /\ r.name = last.ret.name
                              /\ r.path = last.ret.path
                              /\ r.type = last.ret.type

\* roots [/srv/core, /srv/core/ext], the outer root first, and a file under
\* both: zone 'ext', name 'mod'
C25_Witness ==
    /\ last.op = "getPathInfo"
    /\ last.key = << <<"srv", "core">>, <<"srv", "core", "ext">> >>
    /\ last.val = <<<<"srv", "core", "ext", "mod", "x.py">>, LibPR>>
    /\ last.raised = None
    /\ last.ret.type = "ext"
    /\ last.ret.name = "mod"

\* what a step that makes or returns a call changes, besides the arguments
\* and the result of the call
outcome == <<credentials, callbacks, issued, attached, caller_storages, shared_rw,
             shared_ro, last.op, last.caller, last.raised>>

\* C26: when no frame but the resolver's own lies under a root, getPathInfo
\* raises ValueError 'Caller name could not be determined.' and returns no
\* identity; register, getCredential and getKey of such a caller raise the
\* same error and leave the credential table and the callbacks' stores as they
\* were.
C26_NoDefaultIdentity ==
    [][/\ (last'.op = "getPathInfo" /\ UnderSomeRoot(last'.key, last'.val) = {}) =>
              /\ last'.raised = UnknownCaller
              /\ last'.ret = None
       /\ (last'.op \in {"register", "getCredential", "getKey"}
               /\ \A i \in 1..Len(StackOf(last'.caller, <<LibCM>>)) - 1 :
                      \A k \in 1..Len(base_paths) :
                          ~Under(StackOf(last'.caller, <<LibCM>>)[i], base_paths[k])) =>
              /\ last'.raised = UnknownCaller
              /\ last'.ret = None
              /\ credentials' = credentials
              /\ caller_storages' = caller_storages
              /\ issued' = issued]_outcome

\* getCredential of a caller outside every root has raised while the table
\* holds a row
C26_Witness ==
    /\ last.op = "getCredential"
    /\ last.caller = "x"
    /\ last.raised = UnknownCaller
    /\ DOMAIN credentials # {}

(***************************************************************************)
(* C27 to C29  ProtectedStore.                                             *)
(***************************************************************************)
\* the call that is outstanding, by the name of its method
called == last.op

\* l is the outcome of a checked method of the ProtectedStore
StoreOp(l) == "expected" \in DOMAIN l /\ l.op \in StoreMethods

\* the first n elements of s, or all of s
Prefix(s, n) == SubSeq(s, 1, IF n < Len(s) THEN n ELSE Len(s))

\* C27 as stated: a method of the store proceeds when the calling frame or one
\* of up to three frames further out has a self that satisfies the policy;
\* otherwise it raises PermissionError with the expected accessor and the
\* contents stay as they were.
C27_CallerAndThreeOutward ==
    [][StoreOp(last') =>
        LET policy == pstore[1].policy
            examined == Prefix(last'.caller, 1 + max_frames)
        IN  IF \E i \in 1..Len(examined) : _is_access_allowed(policy, examined[i])
            THEN last'.raised # AccessorOnly
            ELSE /\ last'.raised = AccessorOnly
                 /\ last'.expected = ExpectedType(policy)
                 /\ pstore' = pstore]_called

\* C27: every method of the store checks before it reads or writes the
\* contents.  The check looks at three frames, the first of which is the
\* method's own, whose self is the store: so it looks at the calling frame and
\* one frame further out, and for an item assignment, which goes through
\* __setitem__ and set, at the calling frame alone.  The method proceeds when
\* the store itself or the self of one of these frames satisfies the policy;
\* otherwise it raises PermissionError with the expected accessor and the
\* contents stay as they were.
C27_ThreeFramesFromTheStore ==
    [][StoreOp(last') =>
        LET policy == pstore[1].policy
            examined == Prefix(last'.caller, IF last'.op = "__setitem__" THEN 1 ELSE 2)
        IN  IF \/ _is_access_allowed(policy, AStore)
               \/ \E i \in 1..Len(examined) : _is_access_allowed(policy, examined[i])
            THEN /\ last'.raised # AccessorOnly
                 /\ last'.op \in {"set", "__setitem__"} =>
                        pstore'[1].store = Put(pstore[1].store, last'.key, last'.val)
            ELSE /\ last'.raised = AccessorOnly
                 /\ last'.expected = ExpectedType(policy)
                 /\ pstore' = pstore]_called

\* set is refused to a caller three frames in from the accessor, and the
\* value the accessor stored stays
C27_Witness ==
    /\ StoreOp(last)
    /\ last.op = "set"
    /\ last.caller = <<unauthorized_instance, unauthorized_instance, authorized_instance>>
    /\ last.raised = AccessorOnly
    /\ last.expected = "MockAuthorizedClass"
    /\ pstore[1].policy.kind = "instance"
    /\ "k1" \in DOMAIN pstore[1].store
    /\ pstore[1].store["k1"] # last.val

\* C28: a method of the store called from a frame whose self does not satisfy
\* the policy raises PermissionError and leaves the contents as they were,
\* whatever the frames further out are.
C28_ImmediateCallerDecides ==
    [][(StoreOp(last') /\ ~_is_access_allowed(pstore[1].policy, last'.caller[1])) =>
        /\ last'.raised = AccessorOnly
        /\ pstore' = pstore]_called

\* the decision by the kind of policy
IsInstance(policy) == policy.kind = "instance" /\ ~policy.callable
IsType(policy) == policy.kind = "type"
IsName(policy) == policy.kind = "str"
IsPredicate(policy) == policy.kind = "instance" /\ policy.callable

\* C29: _is_access_allowed accepts, for an accessor object (not callable), the
\* object itself and no other instance of its class; for a type, every
\* instance of it; for a str, every object whose class has that name; for a
\* function, the objects for which it returns True, none when it raises; and
\* never a frame that has no self.
C29_PolicyDecisions ==
    (last.op = "_is_access_allowed") =>
        LET policy == pstore[1].policy
            caller_self == last.caller[1]
        IN  /\ caller_self = NoSelf => last.ret = FALSE
            /\ (caller_self # NoSelf /\ IsInstance(policy)) =>
                   /\ last.ret = (caller_self.id = policy.id)
                   /\ caller_self \in {instance2, unauthorized_instance, AStore} =>
                          last.ret = FALSE
            /\ (caller_self # NoSelf /\ IsType(policy)) =>
                   last.ret = (caller_self.cls = policy.cls)
            /\ (caller_self # NoSelf /\ IsName(policy)) =>
                   last.ret = (caller_self.cls = policy.name)
            /\ (caller_self # NoSelf /\ IsPredicate(policy)) =>
                   /\ last.ret = (policy.returns[caller_self.id] = "True")
                   /\ policy.returns[caller_self.id] = "raise" => last.ret = FALSE

\* another instance of the accessor's class has been refused
C29_Witness ==
    /\ last.op = "_is_access_allowed"
    /\ IsInstance(pstore[1].policy)
    /\ last.caller = <<instance2>>
    /\ last.ret = FALSE

(***************************************************************************)
(* C30  getCredential from several threads.                                *)
(***************************************************************************)
\* where each thread is in its call
pcs == [t \in Threads |-> threads[t].pc]

\* C30: every getCredential that returns, in whatever thread, adds one to the
\* stored access_count of the caller's row, and the credentials two calls for
\* one registration have returned carry different counts.
C30_FetchLinearizable ==
    [][\A t \in Threads :
           (threads[t].pc = "found" /\ threads'[t].pc = "done" /\ threads'[t].raised = None) =>
               LET n == threads'[t].ret.name
               IN  /\ credentials'[n].access_count = credentials[n].access_count + 1
                   /\ \A u \in Threads \ {t} :
                          (/\ threads'[u].pc = "done"
                           /\ threads'[u].raised = None
                           /\ threads'[u].ret.key = threads'[t].ret.key)
                              => threads'[u].ret.access_count # threads'[t].ret.access_count]_pcs

(***************************************************************************)
(* C31  register seen from another thread.                                 *)
(***************************************************************************)
\* the calls in progress, in the threads and outside them
progress == <<pcs, called>>

\* C31: the step that puts the row of a new token into the table also leaves
\* a new, empty private store for the name in the attached KVStore: no state
\* that another thread can look at has the new row with no private store or
\* with the private store from before the register.
C31_RegisterAtomic ==
    [][attached =>
        \A n \in DOMAIN credentials' :
            (n \notin DOMAIN credentials \/ credentials'[n].key # credentials[n].key) =>
                /\ n \in DOMAIN caller_storages'
                /\ caller_storages'[n] = EmptyMap]_progress

(***************************************************************************)
(* C32  Constructors and the roots they are given.                         *)
(***************************************************************************)
Constructors == {"PathResolver", "CredentialManager"}

\* no roots: None, the empty string, the empty list, a list with an empty entry
WithoutRoots(arg) ==
    \/ arg = [kind |-> "NoneType"]
    \/ arg = [kind |-> "str", text |-> <<>>]
    \/ arg.kind = "list" /\ Len(arg.items) = 0
    \/ arg.kind = "list" /\ \E i \in 1..Len(arg.items) : Len(arg.items[i]) = 0

\* the roots an argument names, as directories
RootsOf(arg) ==
    IF arg.kind = "str" THEN {Resolve(arg.text)}
    ELSE {Resolve(arg.items[i]) : i \in 1..Len(arg.items)}

\* C32: a PathResolver or CredentialManager constructed with no roots raises
\* ValueError "Base paths cannot be empty." and no directory has been
\* created; constructed with roots it does not raise and every root is a
\* directory afterwards.
C32_RootsOrNothing ==
    [][called = None /\ called' \in Constructors =>
        IF WithoutRoots(last'.key)
        THEN last'.raised = BasePathsEmpty /\ dirs' = dirs
        ELSE last'.raised = None /\ RootsOf(last'.key) \subseteq dirs' /\ dirs \subseteq dirs']_progress

\* a list with a root that is no directory yet and an empty entry is refused
C32_Witness ==
    /\ last.op = "CredentialManager"
    /\ last.raised = BasePathsEmpty
    /\ last.key.kind = "list"
    /\ Len(last.key.items) = 2
    /\ last.key.items[1] # <<>>
    /\ last.key.items[2] = <<>>
    /\ Resolve(last.key.items[1]) \notin dirs
    /\ dirs # {}

(***************************************************************************)
(* C33  A register(ADMIN) refused for the zone.                            *)
(***************************************************************************)
\* C33: a register(ADMIN) that is refused for the caller's zone leaves the
\* table of credentials, with the row the name may hold, the private stores
\* and the shared ones as they were, issues no token and calls no callback.
C33_RefusedAdminChangesNothing ==
    [][called = None /\ called' = "register" /\ last'.key = ADMIN
          /\ last'.raised = AdminNotAllowed =>
        /\ credentials' = credentials
        /\ caller_storages' = caller_storages
        /\ shared_rw' = shared_rw
        /\ shared_ro' = shared_ro
        /\ issued' = issued
        /\ callbacks' = callbacks
        /\ last'.val = None
        /\ last'.ret = None]_outcome

\* a caller of a plugin zone that holds a used row and a private value is
\* refused ADMIN
C33_Witness ==
    /\ last.op = "register"
    /\ last.key = ADMIN
    /\ last.raised = AdminNotAllowed
    /\ HasRow(credentials, last.caller)
    /\ credentials[NameOf(last.caller)].access_count > 0
    /\ NameOf(last.caller) \in DOMAIN caller_storages
    /\ caller_storages[NameOf(last.caller)] # EmptyMap

(***************************************************************************)
(* C34  A row between two registers of its name.                           *)
(***************************************************************************)
\* C34: a step that is not a register returning for the name of a row leaves
\* the row in the table with its name, token, level, zone and created_at, an
\* access_count that is not smaller and enabled still true if it was; a
\* register returning for the name gives the row a new token, the level asked
\* for, access_count 0 and enabled false.
C34_RowBetweenRegisters ==
    [][\A n \in DOMAIN credentials :
          /\ n \in DOMAIN credentials'
          /\ LET old == credentials[n]
                 new == credentials'[n]
             IN  IF last.op = None /\ Registered(last') /\ NameOf(last'.caller) = n
                 THEN /\ new.key # old.key
                      /\ new.access_level = last'.key
                      /\ new.access_count = 0
                      /\ new.enabled = FALSE
                 ELSE /\ new.name = old.name
                      /\ new.key = old.key
                      /\ new.access_level = old.access_level
                      /\ new.type = old.type
                      /\ new.created_at = old.created_at
                      /\ new.access_count >= old.access_count
                      /\ old.enabled => new.enabled]_credentials

\* the row of a name fetched twice since its second register, beside the
\* untouched row of another name
C34_Witness ==
    /\ last.op = "getCredential"
    /\ last.raised = None
    /\ credentials[NameOf(last.caller)].access_count = 2
    /\ credentials[NameOf(last.caller)].created_at = 2
    /\ credentials[NameOf(last.caller)].enabled
    /\ \E m \in DOMAIN credentials : credentials[m].created_at = 1 /\ ~credentials[m].enabled

(***************************************************************************)
(* C35  A superseded row and the calls that overlap the register.          *)
(***************************************************************************)
\* C35: the token and the level of the row stored under a name change only in
\* the step in which a register for the name returns, and then to the token
\* and the level of that register: a getCredential that read the row before
\* the register and finishes after it does not put the superseded row back.
C35_RevocationPermanent ==
    [][\A n \in DOMAIN credentials :
          /\ n \in DOMAIN credentials'
          /\ (credentials'[n].key # credentials[n].key
                 \/ credentials'[n].access_level # credentials[n].access_level) =>
                /\ last.op = None
                /\ Registered(last')
                /\ NameOf(last'.caller) = n
                /\ credentials'[n].key = last'.ret.key
                /\ credentials'[n].access_level = last'.key]_credentials

C37_KeyedByName ==
    [][/\ \A n \in DOMAIN credentials' : credentials'[n].name = n
       /\ (last.op = None /\ Registered(last')) =>
              /\ credentials' = Put(credentials, NameOf(last'.caller), last'.ret)
              /\ last'.ret.type = ZoneOf(last'.caller)
       /\ (last.op = None /\ last'.op \in PrivateOps /\ Resolves(last'.caller)) =>
              LET n == NameOf(last'.caller)
              IN  /\ (last'.raised = NoStorage) <=> (n \notin DOMAIN caller_storages)
                  /\ DOMAIN caller_storages' = DOMAIN caller_storages
                  /\ \A m \in DOMAIN caller_storages \ {n} :
                         caller_storages'[m] = caller_storages[m]
                  /\ (last'.op = "get" /\ last'.raised = None) =>
                         last'.ret = DictGet(caller_storages[n], last'.key, last'.val)
                  /\ (last'.op = "set" /\ last'.raised = None) =>
                         caller_storages'[n] = Put(caller_storages[n], last'.key, last'.val)
                  /\ \A m \in DOMAIN credentials \ {n} : credentials'[m] = credentials[m]
                  /\ (n \in DOMAIN credentials /\ credentials'[n] # credentials[n]) =>
                         credentials'[n].access_count = credentials[n].access_count + 1]_outcome

\* a caller of the plugin zone has read a value from the private store of its
\* name while the only row of the name is the one a caller of the core zone
\* registered
C37_Witness ==
    /\ last.op = "get"
    /\ last.raised = None
    /\ last.ret = "v1"
    /\ ZoneOf(last.caller) = "plugins"
    /\ issued = 1
    /\ credentials[NameOf(last.caller)].type = "core"
    /\ credentials[NameOf(last.caller)].access_count = 2

(***************************************************************************)
(* C38  Whose frames decide, by the method called.                         *)
(***************************************************************************)
\* the frames of the calling code the check reaches: one for an item
\* assignment, two for every other method
Reached(l) == Prefix(l.caller, IF l.op = "__setitem__" THEN 1 ELSE 2)

\* C38 as stated: a method of the store called directly is authorised exactly
\* when the self of the calling frame or of the frame that called it satisfies
\* the policy, and an item assignment exactly when the self of the calling
\* frame does.
C38_CallerOrCallersCaller ==
    [][StoreOp(last') =>
        ((last'.raised # AccessorOnly) <=>
            \E i \in 1..Len(Reached(last')) :
                _is_access_allowed(pstore[1].policy, Reached(last')[i]))]_called

\* C38: a method of the store called directly is authorised exactly when the
\* store itself, the self of the calling frame or that of the frame that
\* called it satisfies the policy, and an item assignment exactly when the
\* store itself or the self of the calling frame does.
C38_StoreCallerOrCallersCaller ==
    [][StoreOp(last') =>
        ((last'.raised # AccessorOnly) <=>
            \/ _is_access_allowed(pstore[1].policy, AStore)
            \/ \E i \in 1..Len(Reached(last')) :
                   _is_access_allowed(pstore[1].policy, Reached(last')[i]))]_called

\* an item assignment from a frame that the accessor called is refused, in a
\* store that holds a value set through such frames
C38_Witness ==
    /\ StoreOp(last)
    /\ last.op = "__setitem__"
    /\ last.caller = <<unauthorized_instance, authorized_instance>>
    /\ last.raised = AccessorOnly
    /\ IsInstance(pstore[1].policy)
    /\ "k1" \in DOMAIN pstore[1].store
    /\ pstore[1].store["k1"] # last.val

====
